---- MODULE Spec2Model ----
(***************************************************************************)
(* Academic planner: the AcademicItem hierarchy (Assignment, Project,      *)
(* Exam), the AcademicPlanner aggregate and its JSON / CSV persistence.    *)
(*                                                                         *)
(* Conventions of the model                                                *)
(*   - a Python str is a sequence of one-character strings, so that        *)
(*     strip(), upper(), strptime() and string comparison are computed;    *)
(*   - a date is its proleptic Gregorian ordinal (date.toordinal());       *)
(*   - hours are counted in thousandths of an hour, round(x, 2) rounds to  *)
(*     a multiple of 10;                                                   *)
(*   - Optional values: None is <<>>, a present value v is <<v>>;          *)
(*   - a call returns [raised |-> "none" or the exception class, ...].     *)
(***************************************************************************)
EXTENDS Integers, Sequences, FiniteSets, TLC

VARIABLES
    today,          \* datetime.now().date(), as an ordinal
    item,           \* the item object under test: <<>> or <<object>>
    student_name,   \* AcademicPlanner._student_name
    items,          \* AcademicPlanner._items
    json_file,      \* the planner JSON file on disk: <<>> (missing) or <<document>>
    loaded,         \* a second planner, the one JSON files are loaded into
    csv_file,       \* the CSV file on disk: <<>> or <<[header, rows]>>
    ret             \* outcome of the latest call: [op, raised, value]

vars == <<today, item, student_name, items, json_file, loaded, csv_file, ret>>

(***************************************************************************)
(* Bounds of the model                                                     *)
(***************************************************************************)
MaxTicks == 2       \* the clock advances at most this many days
MaxItems == 2       \* add_item is explored up to this many items

None == <<>>
Some(v) == <<v>>

(***************************************************************************)
(* Python str                                                              *)
(***************************************************************************)
\* code-point order of the characters the model uses
Alphabet ==
    << " ", "-", ".", "/", "0", "1", "2", "3", "4", "5", "6", "7", "8", "9",
       "A", "B", "C", "D", "E", "F", "G", "H", "I", "J", "K", "L", "M",
       "N", "O", "P", "Q", "R", "S", "T", "U", "V", "W", "X", "Y", "Z",
       "a", "b", "c", "d", "e", "f", "g", "h", "i", "j", "k", "l", "m",
       "n", "o", "p", "q", "r", "s", "t", "u", "v", "w", "x", "y", "z" >>

OrdTable ==
    [c \in {Alphabet[i] : i \in 1..Len(Alphabet)} |->
        CHOOSE i \in 1..Len(Alphabet) : Alphabet[i] = c]

\* ord(c), up to the offset of the first character
Ord(c) == OrdTable[c]

IsDigit(c) == Ord(c) \in Ord("0")..Ord("9")
DigitVal(c) == Ord(c) - Ord("0")
IsLowerCh(c) == Ord(c) \in Ord("a")..Ord("z")
IsUpperCh(c) == Ord(c) \in Ord("A")..Ord("Z")

\* str.upper() / str.lower()
Upper(s) ==
    [i \in 1..Len(s) |->
        IF IsLowerCh(s[i]) THEN Alphabet[Ord(s[i]) - Ord("a") + Ord("A")] ELSE s[i]]

Lower(s) ==
    [i \in 1..Len(s) |->
        IF IsUpperCh(s[i]) THEN Alphabet[Ord(s[i]) - Ord("A") + Ord("a")] ELSE s[i]]

\* str.strip(): leading and trailing whitespace removed
RECURSIVE LStrip(_)
LStrip(s) == IF s # <<>> /\ Head(s) = " " THEN LStrip(Tail(s)) ELSE s

RECURSIVE RStrip(_)
RStrip(s) ==
    IF s # <<>> /\ s[Len(s)] = " " THEN RStrip(SubSeq(s, 1, Len(s) - 1)) ELSE s

Strip(s) == RStrip(LStrip(s))

\* Python's s < t on str: lexicographic by code point
RECURSIVE StrLess(_, _)
StrLess(s, t) ==
    IF t = <<>> THEN FALSE
    ELSE IF s = <<>> THEN TRUE
    ELSE IF Head(s) = Head(t) THEN StrLess(Tail(s), Tail(t))
    ELSE Ord(Head(s)) < Ord(Head(t))

(***************************************************************************)
(* datetime: strptime(s, '%Y-%m-%d'), date.toordinal(), strftime           *)
(***************************************************************************)
IsLeap(y) == (y % 4 = 0) /\ ((y % 100 # 0) \/ (y % 400 = 0))

DaysInMonth(y, m) ==
    IF m = 2 THEN (IF IsLeap(y) THEN 29 ELSE 28)
    ELSE IF m \in {4, 6, 9, 11} THEN 30 ELSE 31

RECURSIVE DaysBeforeMonth(_, _)
DaysBeforeMonth(y, m) ==
    IF m = 1 THEN 0 ELSE DaysBeforeMonth(y, m - 1) + DaysInMonth(y, m - 1)

DaysBeforeYear(y) ==
    (y - 1) * 365 + ((y - 1) \div 4) - ((y - 1) \div 100) + ((y - 1) \div 400)

ToOrdinal(y, m, d) == DaysBeforeYear(y) + DaysBeforeMonth(y, m) + d

\* positions of "-" in s
DashAt(s) == {i \in 1..Len(s) : s[i] = "-"}

AllDigits(s) == \A i \in 1..Len(s) : IsDigit(s[i])

RECURSIVE Num(_)
Num(s) == IF s = <<>> THEN 0 ELSE 10 * Num(SubSeq(s, 1, Len(s) - 1)) + DigitVal(s[Len(s)])

FirstDash(s) == CHOOSE i \in DashAt(s) : \A j \in DashAt(s) : i <= j
LastDash(s) == CHOOSE i \in DashAt(s) : \A j \in DashAt(s) : i >= j

\* the three fields of s split at its two dashes
YearPart(s) == SubSeq(s, 1, FirstDash(s) - 1)
MonthPart(s) == SubSeq(s, FirstDash(s) + 1, LastDash(s) - 1)
DayPart(s) == SubSeq(s, LastDash(s) + 1, Len(s))

\* %d also accepts a space followed by one digit
DayDigits(p) == IF Len(p) = 2 /\ p[1] = " " THEN <<p[2]>> ELSE p

\* strptime(s, '%Y-%m-%d') succeeds: %Y is four digits, %m is 1..12 in one
\* or two digits, %d is 1..31 in one or two digits, nothing may remain, and
\* the day must exist in the month
StrptimeMatches(s) ==
    /\ Cardinality(DashAt(s)) = 2
    /\ LET y == YearPart(s)
           m == MonthPart(s)
           p == DayPart(s)
           d == DayDigits(p)
       IN /\ Len(y) = 4 /\ AllDigits(y) /\ Num(y) >= 1
          /\ Len(m) \in {1, 2} /\ AllDigits(m) /\ Num(m) \in 1..12
          /\ Len(p) \in {1, 2} /\ Len(d) \in {1, 2} /\ AllDigits(d)
          /\ Num(d) \in 1..31
          /\ Num(d) <= DaysInMonth(Num(y), Num(m))

\* datetime.strptime(s, '%Y-%m-%d').date(), for a string that parses
StrptimeDate(s) == ToOrdinal(Num(YearPart(s)), Num(MonthPart(s)), Num(DayDigits(DayPart(s))))

\* the calendar years the clock and the due dates of the model fall in
Years == 2024..2027

YearOfOrdinal(n) == CHOOSE y \in Years : DaysBeforeYear(y) < n /\ n <= DaysBeforeYear(y + 1)
MonthOfOrdinal(n) ==
    LET y == YearOfOrdinal(n)
        r == n - DaysBeforeYear(y)
    IN CHOOSE m \in 1..12 : DaysBeforeMonth(y, m) < r /\ r <= DaysBeforeMonth(y, m) + DaysInMonth(y, m)
DayOfOrdinal(n) ==
    LET y == YearOfOrdinal(n)
    IN n - DaysBeforeYear(y) - DaysBeforeMonth(y, MonthOfOrdinal(n))

DigitCh(v) == Alphabet[Ord("0") + v]
Pad2(v) == <<DigitCh(v \div 10), DigitCh(v % 10)>>
Pad4(v) == <<DigitCh(v \div 1000), DigitCh((v \div 100) % 10), DigitCh((v \div 10) % 10), DigitCh(v % 10)>>

\* date.strftime('%Y-%m-%d')
StrftimeOf(n) == Pad4(YearOfOrdinal(n)) \o <<"-">> \o Pad2(MonthOfOrdinal(n)) \o <<"-">> \o Pad2(DayOfOrdinal(n))

\* the first day of the clock, and the days it runs through
Today0 == ToOrdinal(2025, 9, 26)
ClockDays == Today0..(Today0 + MaxTicks)

\* the days until the due date over which get_priority is tabulated: from
\* overdue to beyond the last threshold of 20 days
PriorityDays == (0 - 1)..22

\* the date strings of the model: due dates and submission dates handed to
\* the program, and what strftime writes on the days of the clock
d_2025_09_27 == <<"2", "0", "2", "5", "-", "0", "9", "-", "2", "7">>
d_2025_9_30 == <<"2", "0", "2", "5", "-", "9", "-", "3", "0">>
d_2025_10_02 == <<"2", "0", "2", "5", "-", "1", "0", "-", "0", "2">>
d_2025_10_20 == <<"2", "0", "2", "5", "-", "1", "0", "-", "2", "0">>
d_2025_13_01 == <<"2", "0", "2", "5", "-", "1", "3", "-", "0", "1">>
d_slashes == <<"1", "0", "/", "0", "2", "/", "2", "0", "2", "5">>
d_2025_10_05 == <<"2", "0", "2", "5", "-", "1", "0", "-", "0", "5">>

DateStrings ==
    {d_2025_09_27, d_2025_9_30, d_2025_10_02, d_2025_10_05, d_2025_10_20,
     d_2025_13_01, d_slashes} \cup {StrftimeOf(n) : n \in ClockDays}
        \cup {StrftimeOf(Today0 + d) : d \in PriorityDays}

\* strptime and strftime, computed once for each string and day of the model
StrptimeTable ==
    [s \in DateStrings |->
        [ok |-> StrptimeMatches(s),
         date |-> IF StrptimeMatches(s) THEN StrptimeDate(s) ELSE 0]]
StrftimeTable == [n \in ClockDays |-> StrftimeOf(n)]

ParsesAsDate(s) == StrptimeTable[s].ok
DateOf(s) == StrptimeTable[s].date
Strftime(n) == StrftimeTable[n]

(***************************************************************************)
(* Call outcomes                                                           *)
(***************************************************************************)
Raise(e) == [raised |-> e]
Return(v) == [raised |-> "none", obj |-> v]

(***************************************************************************)
(* AcademicItem and its three subclasses                                   *)
(***************************************************************************)
VALID_STATUSES == {"not_started", "in_progress", "completed"}

\* AcademicItem.__init__: validation, then the private attributes
AcademicItem_init(title, due_date, course_code, weight, status) ==
    IF Strip(title) = <<>> THEN Raise("ValueError")
    ELSE IF Strip(course_code) = <<>> THEN Raise("ValueError")
    ELSE IF ~(0 <= weight /\ weight <= 100) THEN Raise("ValueError")
    ELSE IF status \notin VALID_STATUSES THEN Raise("ValueError")
    ELSE IF ~ParsesAsDate(due_date) THEN Raise("ValueError")
    ELSE Return([title |-> Strip(title),
                 due_date |-> due_date,
                 course_code |-> Upper(course_code),
                 weight |-> weight,
                 status |-> status,
                 score |-> None,
                 submission_date |-> None])

\* the default assignment_type
s_homework == <<"h", "o", "m", "e", "w", "o", "r", "k">>

\* Assignment.__init__
Assignment_init(title, due_date, course_code, weight, assignment_type, status, estimated_hours) ==
    LET base == AcademicItem_init(title, due_date, course_code, weight, status)
    IN IF base.raised # "none" THEN base
       ELSE IF estimated_hours < 0 THEN Raise("ValueError")
       ELSE Return(base.obj @@ [kind |-> "Assignment",
                                estimated_hours |-> estimated_hours,
                                assignment_type |-> Lower(assignment_type),
                                notes |-> <<>>,
                                instructions |-> <<>>])

\* Project.__init__
Project_init(title, due_date, course_code, weight, status, num_milestones, team_size) ==
    LET base == AcademicItem_init(title, due_date, course_code, weight, status)
    IN IF base.raised # "none" THEN base
       ELSE IF num_milestones < 1 THEN Raise("ValueError")
       ELSE IF team_size < 1 THEN Raise("ValueError")
       ELSE Return(base.obj @@ [kind |-> "Project",
                                num_milestones |-> num_milestones,
                                team_size |-> team_size,
                                milestones |-> <<>>,
                                repository_url |-> <<>>])

s_midterm == <<"m", "i", "d", "t", "e", "r", "m">>
s_final == <<"f", "i", "n", "a", "l">>
s_quiz == <<"q", "u", "i", "z">>
s_exam == <<"e", "x", "a", "m">>
s_TBA == <<"T", "B", "A">>
VALID_EXAM_TYPES == {s_midterm, s_final, s_quiz, s_exam}

\* Exam.__init__
Exam_init(title, due_date, course_code, weight, status, exam_type, num_chapters) ==
    LET base == AcademicItem_init(title, due_date, course_code, weight, status)
    IN IF base.raised # "none" THEN base
       ELSE IF Lower(exam_type) \notin VALID_EXAM_TYPES THEN Raise("ValueError")
       ELSE IF num_chapters < 1 THEN Raise("ValueError")
       ELSE Return(base.obj @@ [kind |-> "Exam",
                                exam_type |-> Lower(exam_type),
                                num_chapters |-> num_chapters,
                                study_guide |-> <<>>,
                                location |-> s_TBA])

\* (due.date() - datetime.now().date()).days
days_until_due(it, now) == DateOf(it.due_date) - now

\* Assignment.get_priority with weight > 20 in the place of weight >= 20
Assignment_get_priority_strict(it, now) ==
    IF it.status = "completed" THEN "low"
    ELSE IF ~ParsesAsDate(it.due_date) THEN "ValueError"
    ELSE LET days == days_until_due(it, now)
         IN IF days < 0 THEN "critical"
            ELSE IF days <= 2 /\ it.weight > 20 THEN "critical"
            ELSE IF days <= 5 \/ it.weight >= 30 THEN "high"
            ELSE IF days <= 10 \/ it.weight >= 15 THEN "medium"
            ELSE "low"

\* Assignment.get_priority without its test of an overdue item
Assignment_get_priority_no_overdue(it, now) ==
    IF it.status = "completed" THEN "low"
    ELSE IF ~ParsesAsDate(it.due_date) THEN "ValueError"
    ELSE LET days == days_until_due(it, now)
         IN IF days <= 2 /\ it.weight >= 20 THEN "critical"
            ELSE IF days <= 5 \/ it.weight >= 30 THEN "high"
            ELSE IF days <= 10 \/ it.weight >= 15 THEN "medium"
            ELSE "low"

\* Assignment.get_priority
Assignment_get_priority(it, now) ==
    IF it.status = "completed" THEN "low"
    ELSE IF ~ParsesAsDate(it.due_date) THEN "ValueError"
    ELSE LET days == days_until_due(it, now)
         IN IF days < 0 THEN "critical"
            ELSE IF days <= 2 /\ it.weight >= 20 THEN "critical"
            ELSE IF days <= 5 \/ it.weight >= 30 THEN "high"
            ELSE IF days <= 10 \/ it.weight >= 15 THEN "medium"
            ELSE "low"

\* Project.get_priority
Project_get_priority(it, now) ==
    IF it.status = "completed" THEN "low"
    ELSE IF ~ParsesAsDate(it.due_date) THEN "ValueError"
    ELSE LET days == days_until_due(it, now)
         IN IF days < 0 THEN "critical"
            ELSE IF days <= 5 THEN "critical"
            ELSE IF days <= 10 \/ it.weight >= 30 THEN "high"
            ELSE IF days <= 20 THEN "medium"
            ELSE "low"

\* Exam.get_priority without its test of the completed status
Exam_get_priority_no_completed(it, now) ==
    LET days == days_until_due(it, now)
    IN IF days < 0 THEN "critical"
       ELSE IF days <= 7 THEN "critical"
       ELSE IF days <= 14 THEN "high"
       ELSE "medium"

\* Exam.get_priority
Exam_get_priority(it, now) ==
    IF it.status = "completed" THEN "low"
    ELSE IF ~ParsesAsDate(it.due_date) THEN "ValueError"
    ELSE LET days == days_until_due(it, now)
         IN IF days < 0 THEN "critical"
            ELSE IF days <= 7 THEN "critical"
            ELSE IF days <= 14 THEN "high"
            ELSE "medium"

\* item.get_priority(), dispatched on the class of the object
get_priority(it, now) ==
    IF it.kind = "Assignment" THEN Assignment_get_priority(it, now)
    ELSE IF it.kind = "Project" THEN Project_get_priority(it, now)
    ELSE Exam_get_priority(it, now)

\* round(x, 2) of a non-negative number of thousandths (no input of the
\* model lies exactly halfway between two hundredths)
Round2(x) == 10 * ((x + 5) \div 10)

\* team_size ** 0.7, in ten-thousandths (team sizes 1..5)
TeamFactor(team_size) ==
    IF team_size = 1 THEN 10000
    ELSE IF team_size = 2 THEN 16245
    ELSE IF team_size = 3 THEN 21577
    ELSE IF team_size = 4 THEN 26390
    ELSE 30852

\* Project.calculate_time_commitment: round(15.0 * milestones / factor, 2)
Project_calculate_time_commitment(it) ==
    10 * ((2 * 1500 * it.num_milestones * 10000 + TeamFactor(it.team_size))
            \div (2 * TeamFactor(it.team_size)))

\* Exam.calculate_time_commitment
Exam_calculate_time_commitment(it) ==
    LET base_hours_per_chapter ==
            IF it.exam_type = s_final THEN 4000
            ELSE IF it.exam_type = s_quiz THEN 2000 ELSE 3000
    IN Round2(base_hours_per_chapter * it.num_chapters)

\* item.calculate_time_commitment(), dispatched on the class of the object
calculate_time_commitment(it) ==
    IF it.kind = "Assignment" THEN it.estimated_hours
    ELSE IF it.kind = "Project" THEN Project_calculate_time_commitment(it)
    ELSE Exam_calculate_time_commitment(it)

\* item.get_item_type()
s_ASSIGNMENT == <<"A", "S", "S", "I", "G", "N", "M", "E", "N", "T">>
s_PROJECT == <<"P", "R", "O", "J", "E", "C", "T">>
s_EXAM_dash == <<"E", "X", "A", "M", "-">>
get_item_type(it) ==
    IF it.kind = "Assignment" THEN s_ASSIGNMENT
    ELSE IF it.kind = "Project" THEN s_PROJECT
    ELSE s_EXAM_dash \o Upper(it.exam_type)

\* AcademicItem.status setter
set_status(it, value) ==
    IF value \notin VALID_STATUSES THEN [raised |-> "ValueError", obj |-> it]
    ELSE Return([it EXCEPT !.status = value])

\* mark_completed assigning status and score before the score is validated
mark_completed_late_check(it, score, submission_date, now) ==
    IF score < 0 \/ score > 100
    THEN [raised |-> "ValueError",
          obj |-> [it EXCEPT !.status = "completed", !.score = Some(score)]]
    ELSE [raised |-> "none",
          obj |-> [it EXCEPT !.status = "completed", !.score = Some(score),
                             !.submission_date =
                                 IF submission_date # None THEN submission_date
                                 ELSE Some(Strftime(now))]]

\* AcademicItem.mark_completed: the score is validated first; status and
\* score are assigned before the submission date is looked at
mark_completed(it, score, submission_date, now) ==
    IF ~(0 <= score /\ score <= 100) THEN [raised |-> "ValueError", obj |-> it]
    ELSE LET done == [it EXCEPT !.status = "completed", !.score = Some(score)]
         IN IF submission_date # None /\ submission_date[1] # <<>>
            THEN IF ParsesAsDate(submission_date[1])
                 THEN Return([done EXCEPT !.submission_date = submission_date])
                 ELSE [raised |-> "ValueError", obj |-> done]
            ELSE Return([done EXCEPT !.submission_date = Some(Strftime(now))])


(***************************************************************************)
(* AcademicPlanner: the aggregate queries                                  *)
(***************************************************************************)
\* isinstance(x, AcademicItem)
IsAcademicItem(x) == x.kind \in {"Assignment", "Project", "Exam"}

\* add_item putting the new item in front of the list
add_item_front(its, x) ==
    IF ~IsAcademicItem(x) THEN [raised |-> "TypeError", obj |-> its]
    ELSE Return(<<x>> \o its)

\* AcademicPlanner.add_item
add_item(its, x) ==
    IF ~IsAcademicItem(x) THEN [raised |-> "TypeError", obj |-> its]
    ELSE Return(Append(its, x))

\* AcademicPlanner.get_total_workload without its test of the status
RECURSIVE TotalOfAll(_)
TotalOfAll(its) ==
    IF its = <<>> THEN 0
    ELSE calculate_time_commitment(Head(its)) + TotalOfAll(Tail(its))

get_total_workload_all(its) == Round2(TotalOfAll(its))

\* the loop of AcademicPlanner.get_total_workload
RECURSIVE TotalOfIncomplete(_)
TotalOfIncomplete(its) ==
    IF its = <<>> THEN 0
    ELSE (IF Head(its).status # "completed"
          THEN calculate_time_commitment(Head(its)) ELSE 0)
         + TotalOfIncomplete(Tail(its))

\* AcademicPlanner.get_total_workload
get_total_workload(its) == Round2(TotalOfIncomplete(its))

\* the loop of calculate_weekly_workload with the week index rounded up
RECURSIVE WeeklyLoop_ceil(_, _, _, _)
WeeklyLoop_ceil(its, weeks_ahead, now, result) ==
    IF its = <<>> THEN result
    ELSE LET it == Head(its)
             rest == Tail(its)
         IN IF ~ParsesAsDate(it.due_date)
            THEN WeeklyLoop_ceil(rest, weeks_ahead, now, result)
            ELSE LET days_delta == DateOf(it.due_date) - now
                     week_index == (days_delta + 6) \div 7
                 IN IF days_delta < 0
                    THEN WeeklyLoop_ceil(rest, weeks_ahead, now, result)
                    ELSE IF 0 <= week_index /\ week_index < weeks_ahead
                    THEN WeeklyLoop_ceil(rest, weeks_ahead, now,
                            [result EXCEPT ![week_index + 1] = @ + calculate_time_commitment(it)])
                    ELSE WeeklyLoop_ceil(rest, weeks_ahead, now, result)

\* the loop of AcademicPlanner.calculate_weekly_workload: result[key] += hours
RECURSIVE WeeklyLoop(_, _, _, _)
WeeklyLoop(its, weeks_ahead, now, result) ==
    IF its = <<>> THEN result
    ELSE LET it == Head(its)
             rest == Tail(its)
         IN IF ~ParsesAsDate(it.due_date)
            THEN WeeklyLoop(rest, weeks_ahead, now, result)
            ELSE LET days_delta == DateOf(it.due_date) - now
                     week_index == days_delta \div 7
                 IN IF days_delta < 0
                    THEN WeeklyLoop(rest, weeks_ahead, now, result)
                    ELSE IF 0 <= week_index /\ week_index < weeks_ahead
                    THEN WeeklyLoop(rest, weeks_ahead, now,
                            [result EXCEPT ![week_index + 1] = @ + calculate_time_commitment(it)])
                    ELSE WeeklyLoop(rest, weeks_ahead, now, result)

\* AcademicPlanner.calculate_weekly_workload; the key 'Week k' is k
calculate_weekly_workload(its, weeks_ahead, now) ==
    IF weeks_ahead <= 0 THEN Raise("ValueError")
    ELSE LET result == WeeklyLoop(its, weeks_ahead, now, [k \in 1..weeks_ahead |-> 0])
         IN Return([k \in 1..weeks_ahead |-> Round2(result[k])])

\* the record get_upcoming_deadlines builds for an item
DeadlineRecord(it, now) ==
    [title |-> it.title,
     due_date |-> it.due_date,
     type |-> get_item_type(it),
     hours_needed |-> calculate_time_commitment(it),
     priority |-> get_priority(it, now)]

\* the loop of get_upcoming_deadlines with due > today instead of due >= today
RECURSIVE DeadlinesLoop_strict(_, _, _)
DeadlinesLoop_strict(its, now, cutoff) ==
    IF its = <<>> THEN <<>>
    ELSE LET it == Head(its)
             rest == DeadlinesLoop_strict(Tail(its), now, cutoff)
         IN IF ~ParsesAsDate(it.due_date) THEN rest
            ELSE IF now < DateOf(it.due_date) /\ DateOf(it.due_date) <= cutoff
            THEN <<DeadlineRecord(it, now)>> \o rest
            ELSE rest

\* the loop of get_upcoming_deadlines: the records of the items in the window
RECURSIVE DeadlinesLoop(_, _, _)
DeadlinesLoop(its, now, cutoff) ==
    IF its = <<>> THEN <<>>
    ELSE LET it == Head(its)
             rest == DeadlinesLoop(Tail(its), now, cutoff)
         IN IF ~ParsesAsDate(it.due_date) THEN rest
            ELSE IF now <= DateOf(it.due_date) /\ DateOf(it.due_date) <= cutoff
            THEN <<DeadlineRecord(it, now)>> \o rest
            ELSE rest

\* list.sort(key=lambda d: d["due_date"]): stable, by string comparison
RECURSIVE InsertByDueDate(_, _)
InsertByDueDate(sorted, rec) ==
    IF sorted = <<>> THEN <<rec>>
    ELSE IF StrLess(rec.due_date, Head(sorted).due_date) THEN <<rec>> \o sorted
    ELSE <<Head(sorted)>> \o InsertByDueDate(Tail(sorted), rec)

RECURSIVE SortByDueDate(_)
SortByDueDate(recs) ==
    IF recs = <<>> THEN <<>>
    ELSE InsertByDueDate(SortByDueDate(SubSeq(recs, 1, Len(recs) - 1)), recs[Len(recs)])

\* AcademicPlanner.get_upcoming_deadlines
get_upcoming_deadlines(its, days_ahead, now) ==
    IF days_ahead <= 0 THEN Raise("ValueError")
    ELSE Return(SortByDueDate(DeadlinesLoop(its, now, now + days_ahead)))

\* the loop of get_priority_summary that leaves the completed items out
RECURSIVE SummaryLoop_incomplete(_, _, _)
SummaryLoop_incomplete(its, now, summary) ==
    IF its = <<>> THEN summary
    ELSE LET prio == get_priority(Head(its), now)
         IN SummaryLoop_incomplete(Tail(its), now,
                IF Head(its).status # "completed" /\ prio \in DOMAIN summary
                THEN [summary EXCEPT ![prio] = @ + 1] ELSE summary)

\* the loop of get_priority_summary: summary[prio] += 1 when prio is a key
RECURSIVE SummaryLoop(_, _, _)
SummaryLoop(its, now, summary) ==
    IF its = <<>> THEN summary
    ELSE LET prio == get_priority(Head(its), now)
         IN SummaryLoop(Tail(its), now,
                IF prio \in DOMAIN summary
                THEN [summary EXCEPT ![prio] = @ + 1] ELSE summary)

\* get_priority_summary over the items that are not completed
get_priority_summary_incomplete(its, now) ==
    SummaryLoop_incomplete(its, now, [critical |-> 0, high |-> 0, medium |-> 0, low |-> 0])

\* AcademicPlanner.get_priority_summary
get_priority_summary(its, now) ==
    SummaryLoop(its, now, [critical |-> 0, high |-> 0, medium |-> 0, low |-> 0])

\* AcademicPlanner.get_items_by_priority: the items that are not completed
\* and whose get_priority() is the level asked for
RECURSIVE ByPriorityLoop(_, _, _)
ByPriorityLoop(its, priority, now) ==
    IF its = <<>> THEN <<>>
    ELSE (IF Head(its).status # "completed" /\ get_priority(Head(its), now) = priority
          THEN <<Head(its)>> ELSE <<>>)
         \o ByPriorityLoop(Tail(its), priority, now)

get_items_by_priority(its, priority, now) ==
    IF priority \notin {"critical", "high", "medium", "low"} THEN Raise("ValueError")
    ELSE Return(ByPriorityLoop(its, priority, now))

\* round(a / b, 2) of a ratio already scaled to hundredths, to the nearest
RoundDiv(a, b) == (2 * a + b) \div (2 * b)

\* the loop of get_completion_stats that counts a completed item only when
\* it has a score
RECURSIVE StatsLoop_scored(_, _)
StatsLoop_scored(its, acc) ==
    IF its = <<>> THEN acc
    ELSE LET it == Head(its)
         IN StatsLoop_scored(Tail(its),
                IF it.status = "completed"
                THEN (IF it.score # None
                      THEN [acc EXCEPT !.completed = @ + 1,
                                       !.scores = Append(@, it.score[1])]
                      ELSE acc)
                ELSE IF it.status = "in_progress"
                THEN [acc EXCEPT !.in_progress = @ + 1]
                ELSE [acc EXCEPT !.not_started = @ + 1])

\* the loop of get_completion_stats: the three counters and the scores
RECURSIVE StatsLoop(_, _)
StatsLoop(its, acc) ==
    IF its = <<>> THEN acc
    ELSE LET it == Head(its)
         IN StatsLoop(Tail(its),
                IF it.status = "completed"
                THEN [acc EXCEPT !.completed = @ + 1,
                                 !.scores = IF it.score # None
                                            THEN Append(@, it.score[1]) ELSE @]
                ELSE IF it.status = "in_progress"
                THEN [acc EXCEPT !.in_progress = @ + 1]
                ELSE [acc EXCEPT !.not_started = @ + 1])

RECURSIVE SumSeq(_)
SumSeq(q) == IF q = <<>> THEN 0 ELSE Head(q) + SumSeq(Tail(q))

\* the dict get_completion_stats returns from the counters; the two rates
\* are in hundredths
StatsOf(total, acc) ==
    [total_items |-> total,
     completed |-> acc.completed,
     in_progress |-> acc.in_progress,
     not_started |-> acc.not_started,
     completion_rate |-> IF total = 0 THEN 0 ELSE RoundDiv(acc.completed * 10000, total),
     average_score |-> IF acc.scores = <<>> THEN 0
                       ELSE RoundDiv(SumSeq(acc.scores) * 100, Len(acc.scores))]

\* get_completion_stats counting only the completed items that have a score
get_completion_stats_scored(its) ==
    StatsOf(Len(its),
            StatsLoop_scored(its, [completed |-> 0, in_progress |-> 0, not_started |-> 0,
                                   scores |-> <<>>]))

\* AcademicPlanner.get_completion_stats
get_completion_stats(its) ==
    StatsOf(Len(its),
            StatsLoop(its, [completed |-> 0, in_progress |-> 0, not_started |-> 0,
                            scores |-> <<>>]))

(***************************************************************************)
(* Persistence: AcademicPlanner.save_to_json / load_from_json              *)
(*                                                                         *)
(* A JSON object is a record; null and the empty string are <<>>, a        *)
(* number n that may be null is <<n>>.  A file is <<>> when it is missing  *)
(* and otherwise <<[valid, root]>>: valid says the text parses as JSON,    *)
(* root is the value it parses to.                                         *)
(***************************************************************************)
\* an element of the items array that is no JSON object (a string, a
\* number, null) is [json |-> its kind]; it has no .get and no keys
JsonString == [json |-> "string"]
IsObject(data) == "json" \notin DOMAIN data

\* dict.get(key, default)
DictGet(d, key, default) == IF key \in DOMAIN d THEN d[key] ELSE default

\* Python's  sub in s  on str
Contains(s, sub) ==
    \E i \in 0..(Len(s) - Len(sub)) : SubSeq(s, i + 1, i + Len(sub)) = sub

\* Assignment.add_notes, Assignment.set_instructions
add_notes(it, notes) == [it EXCEPT !.notes = Strip(notes)]
set_instructions(it, instructions) == [it EXCEPT !.instructions = Strip(instructions)]

\* Project.add_milestone, Project.set_repository
add_milestone(it, title, due_date) ==
    IF ~ParsesAsDate(due_date) THEN [raised |-> "ValueError", obj |-> it]
    ELSE Return([it EXCEPT !.milestones =
                    Append(@, [title |-> Strip(title), due_date |-> due_date,
                               completed |-> FALSE])])
set_repository(it, url) == [it EXCEPT !.repository_url = Strip(url)]

\* Exam.set_study_guide, Exam.set_location
set_study_guide(it, guide) == [it EXCEPT !.study_guide = Strip(guide)]
set_location(it, location) == [it EXCEPT !.location = Strip(location)]

\* AcademicPlanner._item_to_dict
_item_to_dict(it) ==
    [title |-> it.title,
     due_date |-> it.due_date,
     course_code |-> it.course_code,
     weight |-> it.weight,
     status |-> it.status,
     score |-> it.score,
     type |-> get_item_type(it)]
    @@ (IF it.kind = "Assignment"
        THEN [estimated_hours |-> it.estimated_hours,
              notes |-> it.notes,
              instructions |-> it.instructions]
        ELSE IF it.kind = "Project"
        THEN [num_milestones |-> it.num_milestones,
              team_size |-> it.team_size,
              milestones |-> it.milestones,
              repository_url |-> it.repository_url]
        ELSE [exam_type |-> it.exam_type,
              num_chapters |-> it.num_chapters,
              study_guide |-> it.study_guide,
              location |-> it.location])

\* the replay of the saved milestones: add_milestone for each one that has a
\* title and a due date
RECURSIVE ReplayMilestones(_, _)
ReplayMilestones(it, ms) ==
    IF ms = <<>> THEN Return(it)
    ELSE LET title_m == DictGet(Head(ms), "title", <<>>)
             due_m == DictGet(Head(ms), "due_date", <<>>)
         IN IF title_m # <<>> /\ due_m # <<>>
            THEN LET r == add_milestone(it, title_m, due_m)
                 IN IF r.raised # "none" THEN r ELSE ReplayMilestones(r.obj, Tail(ms))
            ELSE ReplayMilestones(it, Tail(ms))

\* _item_from_dict, the Assignment branch
AssignmentExtras(r, notes, instructions) ==
    IF r.raised # "none" THEN r
    ELSE LET a == IF notes # <<>> THEN add_notes(r.obj, notes) ELSE r.obj
         IN Return(IF instructions # <<>> THEN set_instructions(a, instructions) ELSE a)

AssignmentFromDict(data) ==
    AssignmentExtras(Assignment_init(data.title, data.due_date, data.course_code,
                                     data.weight, s_homework, "not_started",
                                     DictGet(data, "estimated_hours", 0)),
                     DictGet(data, "notes", <<>>),
                     DictGet(data, "instructions", <<>>))

\* _item_from_dict, the Project branch
\* the repository is set on the project the milestones were replayed on
ProjectRepository(m, repo) ==
    IF m.raised # "none" THEN Raise(m.raised)
    ELSE Return(IF repo # <<>> THEN set_repository(m.obj, repo) ELSE m.obj)

ProjectExtras(r, milestones, repo) ==
    IF r.raised # "none" THEN r
    ELSE ProjectRepository(ReplayMilestones(r.obj, milestones), repo)

\* the Project branch; repo_key is the key the repository is read from
ProjectFromDictKey(data, repo_key) ==
    ProjectExtras(Project_init(data.title, data.due_date, data.course_code, data.weight,
                               "not_started",
                               DictGet(data, "num_milestones", 0),
                               DictGet(data, "team_size", 1)),
                  DictGet(data, "milestones", <<>>),
                  DictGet(data, repo_key, <<>>))

ProjectFromDict(data) == ProjectFromDictKey(data, "repository_url")

\* _item_from_dict, the Exam branch
ExamExtras(r, guide, loc) ==
    IF r.raised # "none" THEN r
    ELSE LET a == IF guide # <<>> THEN set_study_guide(r.obj, guide) ELSE r.obj
         IN Return(IF loc # <<>> THEN set_location(a, loc) ELSE a)

ExamFromDict(data) ==
    ExamExtras(Exam_init(data.title, data.due_date, data.course_code, data.weight,
                         "not_started",
                         DictGet(data, "exam_type", s_exam),
                         DictGet(data, "num_chapters", 0)),
               DictGet(data, "study_guide", <<>>),
               DictGet(data, "location", <<>>))

\* the end of _item_from_dict with the saved status and score ignored
RestoreStatus_none(it, data, now) == Return(it)

\* the end of _item_from_dict: the common status and score are restored
RestoreStatus(it, data, now) ==
    IF "status" \notin DOMAIN data THEN Return(it)
    ELSE IF data.status = "completed" /\ DictGet(data, "score", None) # None
    THEN LET r == mark_completed(it, data.score[1], None, now)
         IN IF r.raised = "none" THEN r ELSE set_status(r.obj, "completed")
    ELSE IF data.status \in {"completed", "in_progress", "not_started"}
    THEN set_status(it, data.status)
    ELSE Return(it)

s_EXAM == <<"E", "X", "A", "M">>

\* _item_from_dict: the branch the upper-cased type tag selects
BuildFromDict(data, item_type) ==
    IF Contains(item_type, s_ASSIGNMENT) THEN AssignmentFromDict(data)
    ELSE IF Contains(item_type, s_PROJECT) THEN ProjectFromDict(data)
    ELSE IF Contains(item_type, s_EXAM) THEN ExamFromDict(data)
    ELSE Raise("ValueError")

\* _item_from_dict: an exception of the branch leaves the function, else the
\* status is restored on the item built
RestoreBuilt(built, data, now) ==
    IF built.raised # "none" THEN built
    ELSE RestoreStatus(built.obj, data, now)

\* AcademicPlanner._item_from_dict
_item_from_dict(data, now) ==
    IF ~IsObject(data) THEN Raise("AttributeError")
    ELSE IF ~({"title", "due_date", "course_code", "weight"} \subseteq DOMAIN data)
    THEN Raise("KeyError")
    ELSE RestoreBuilt(BuildFromDict(data, Upper(DictGet(data, "type", <<>>))), data, now)

RECURSIVE MapItemToDict(_)
MapItemToDict(its) ==
    IF its = <<>> THEN <<>> ELSE <<_item_to_dict(Head(its))>> \o MapItemToDict(Tail(its))

\* AcademicPlanner.save_to_json: the document written
save_to_json(name, its, now) ==
    Return(Some([valid |-> TRUE,
                 root |-> [student_name |-> name,
                           generated_at |-> Strftime(now),
                           items |-> MapItemToDict(its)]]))

\* new_items.append(...) inside try / except Exception: continue
LoadedItem(r) == IF r.raised = "none" THEN <<r.obj>> ELSE <<>>

\* the loop of load_from_json: a record that fails is skipped
RECURSIVE LoadItems(_, _)
LoadItems(items_data, now) ==
    IF items_data = <<>> THEN <<>>
    ELSE LoadedItem(_item_from_dict(Head(items_data), now))
            \o LoadItems(Tail(items_data), now)

\* AcademicPlanner.load_from_json on the planner pl
load_from_json(pl, file, now) ==
    IF file = None THEN [raised |-> "FileNotFoundError", obj |-> pl]
    ELSE IF ~file[1].valid THEN [raised |-> "ValueError", obj |-> pl]
    ELSE IF ~IsObject(file[1].root) THEN [raised |-> "AttributeError", obj |-> pl]
    ELSE LET raw == file[1].root
             named == [pl EXCEPT !.student_name = DictGet(raw, "student_name", pl.student_name)]
         IN IF "items" \notin DOMAIN raw THEN [raised |-> "ValueError", obj |-> named]
            ELSE Return([named EXCEPT !.items = LoadItems(raw.items, now)])

(***************************************************************************)
(* Persistence: academic_io                                                *)
(***************************************************************************)
s_Assignment == <<"A", "s", "s", "i", "g", "n", "m", "e", "n", "t">>
s_Project == <<"P", "r", "o", "j", "e", "c", "t">>
s_Exam == <<"E", "x", "a", "m">>

\* item.__class__.__name__
ClassName(it) ==
    IF it.kind = "Assignment" THEN s_Assignment
    ELSE IF it.kind = "Project" THEN s_Project
    ELSE s_Exam

ITEM_CLASS_MAP == {s_Assignment, s_Project, s_Exam}

\* academic_io._serialize_item
_serialize_item(it) ==
    [type |-> ClassName(it),
     title |-> it.title,
     due_date |-> it.due_date,
     course_code |-> it.course_code,
     weight |-> it.weight,
     status |-> it.status,
     score |-> it.score]
    @@ (IF it.kind = "Assignment"
        THEN [estimated_hours |-> it.estimated_hours,
              notes |-> it.notes,
              instructions |-> it.instructions]
        ELSE IF it.kind = "Project"
        THEN [num_milestones |-> it.num_milestones,
              team_size |-> it.team_size,
              milestones |-> it.milestones,
              repository |-> it.repository_url]
        ELSE [exam_type |-> it.exam_type,
              num_chapters |-> it.num_chapters,
              study_guide |-> it.study_guide,
              location |-> it.location])

\* academic_io._deserialize_item: the constructor of the class the type names
BuildDeserialized(data) ==
    IF data.type = s_Assignment THEN AssignmentFromDict(data)
    ELSE IF data.type = s_Project THEN ProjectFromDictKey(data, "repository")
    ELSE ExamFromDict(data)

\* academic_io._deserialize_item: item.status is assigned, then item.score,
\* a property that has no setter
RestoreDeserialized(built, data) ==
    IF built.raised # "none" THEN built
    ELSE LET st == IF "status" \in DOMAIN data /\ data.status \in VALID_STATUSES
                   THEN set_status(built.obj, data.status).obj
                   ELSE built.obj
         IN IF DictGet(data, "score", None) # None
            THEN Raise("AttributeError")
            ELSE Return(st)

\* academic_io._deserialize_item
_deserialize_item(data) ==
    IF ~IsObject(data) THEN Raise("AttributeError")
    ELSE IF DictGet(data, "type", <<>>) \notin ITEM_CLASS_MAP THEN Raise("ValueError")
    ELSE IF ~({"title", "due_date", "course_code", "weight"} \subseteq DOMAIN data)
    THEN Raise("KeyError")
    ELSE RestoreDeserialized(BuildDeserialized(data), data)

\* academic_io.save_planner_to_json: the payload names datetime, which the
\* module does not import, so that no document is written
save_planner_to_json(name, its, now) == Raise("NameError")

\* AcademicPlanner.__init__
AcademicPlanner_init(name) ==
    IF Strip(name) = <<>> THEN Raise("ValueError")
    ELSE Return([student_name |-> Strip(name), items |-> <<>>])

\* the loop of load_planner_from_json: ValueError and KeyError skip the
\* record, any other exception ends the load
RECURSIVE DeserializeAll(_, _)
\* one round of the loop, r being the outcome of _deserialize_item
DeserializeNext(pl, r, rest) ==
    IF r.raised = "none"
    THEN DeserializeAll([pl EXCEPT !.items = add_item(@, r.obj).obj], rest)
    ELSE IF r.raised \in {"ValueError", "KeyError"}
    THEN DeserializeAll(pl, rest)
    ELSE Raise(r.raised)

DeserializeAll(pl, items_data) ==
    IF items_data = <<>> THEN Return(pl)
    ELSE DeserializeNext(pl, _deserialize_item(Head(items_data)), Tail(items_data))

\* academic_io.load_planner_from_json
load_planner_from_json(file, default_student_name) ==
    IF file = None THEN Raise("FileNotFoundError")
    ELSE IF ~file[1].valid THEN Raise("ValueError")
    ELSE IF ~IsObject(file[1].root) THEN Raise("AttributeError")
    ELSE LET payload == file[1].root
             name == IF DictGet(payload, "student_name", <<>>) # <<>>
                     THEN payload.student_name ELSE default_student_name
             pl == AcademicPlanner_init(name)
         IN IF pl.raised # "none" THEN pl
            ELSE DeserializeAll(pl.obj, DictGet(payload, "items", <<>>))

\* academic_io.export_deadlines_to_csv: the header and the rows written
RECURSIVE DeadlineRows(_)
DeadlineRows(deadlines) ==
    IF deadlines = <<>> THEN <<>>
    ELSE LET d == Head(deadlines)
         IN << [due_date |-> DictGet(d, "due_date", <<>>),
                title |-> DictGet(d, "title", <<>>),
                type |-> DictGet(d, "type", <<>>),
                course_code |-> DictGet(d, "course_code", <<>>),
                hours_needed |-> DictGet(d, "hours_needed", <<>>),
                priority |-> DictGet(d, "priority", <<>>)] >>
            \o DeadlineRows(Tail(deadlines))

DeadlineHeader ==
    <<"due_date", "title", "type", "course_code", "hours_needed", "priority">>

export_deadlines_to_csv(its, days_ahead, now) ==
    LET r == get_upcoming_deadlines(its, days_ahead, now)
    IN IF r.raised # "none" THEN r
       ELSE Return(Some([header |-> DeadlineHeader, rows |-> DeadlineRows(r.obj)]))

s_Student == <<"S", "t", "u", "d", "e", "n", "t">>
s_Temp == <<"T", "e", "m", "p">>

\* the second planner as constructed
FreshPlanner == AcademicPlanner_init(s_Temp).obj

(***************************************************************************)
(* Inputs of the item-level exploration                                    *)
(***************************************************************************)
s_blank == <<" ">>
s_HW1 == <<" ", "H", "W", "1", " ">>
s_inst326 == <<"i", "n", "s", "t", "3", "2", "6">>
s_Final == <<"F", "i", "n", "a", "l">>
s_oral == <<"o", "r", "a", "l">>

\* arguments every constructor accepts
GoodArgs ==
    [title : {s_HW1}, due_date : {d_2025_09_27, d_2025_9_30, d_2025_10_20},
     course_code : {s_inst326}, weight : {10, 25, 40}, status : {"not_started"}]
        \cup {[title |-> s_HW1, due_date |-> d_2025_9_30, course_code |-> s_inst326,
               weight |-> 25, status |-> "completed"]}

OneGoodArg ==
    [title |-> s_HW1, due_date |-> d_2025_9_30, course_code |-> s_inst326,
     weight |-> 25, status |-> "not_started"]

\* one rejected value per validated argument
BadArgs ==
    { [OneGoodArg EXCEPT !.title = s_blank],
      [OneGoodArg EXCEPT !.course_code = <<>>],
      [OneGoodArg EXCEPT !.weight = 101],
      [OneGoodArg EXCEPT !.weight = 0 - 1],
      [OneGoodArg EXCEPT !.status = "done"],
      [OneGoodArg EXCEPT !.due_date = d_2025_13_01],
      [OneGoodArg EXCEPT !.due_date = d_slashes] }

CtorArgs == GoodArgs \cup BadArgs

\* the subclass arguments tried with every common argument, and the
\* rejected ones tried with one good common argument
AssignmentArgs ==
    {<<a, 3504>> : a \in CtorArgs} \cup {<<OneGoodArg, 0 - 1000>>}
ProjectArgs ==
    {<<a, 3, 4>> : a \in CtorArgs} \cup {<<OneGoodArg, 0, 4>>, <<OneGoodArg, 3, 0>>}
ExamArgs ==
    {<<a, s_Final, 6>> : a \in CtorArgs}
        \cup {<<OneGoodArg, s_quiz, 2>>, <<OneGoodArg, s_oral, 6>>, <<OneGoodArg, s_Final, 0>>}

Scores == {85, 101}
\* the scores tried on one item: the two ends of the range, one inside and
\* one beyond each end
ItemScores == {0 - 1, 0, 85, 100, 101}
SubmissionDates == {None, Some(d_2025_10_02), Some(d_slashes)}
StatusValues == {"not_started", "in_progress", "completed", "done"}

Call(op, raised, value) == [op |-> op, raised |-> raised, value |-> value]

\* the object a constructor call leaves bound: the new one, or the old one
\* when the constructor raised
Bound(r) == IF r.raised = "none" THEN <<r.obj>> ELSE item

ItemFrame == UNCHANGED <<today, student_name, items, json_file, loaded, csv_file>>

\* the outcomes of the constructor calls of the exploration
AssignmentCalls ==
    { Assignment_init(x[1].title, x[1].due_date, x[1].course_code, x[1].weight,
                      s_homework, x[1].status, x[2]) : x \in AssignmentArgs }
ProjectCalls ==
    { Project_init(x[1].title, x[1].due_date, x[1].course_code, x[1].weight,
                   x[1].status, x[2], x[3]) : x \in ProjectArgs }
ExamCalls ==
    { Exam_init(x[1].title, x[1].due_date, x[1].course_code, x[1].weight,
                x[1].status, x[2], x[3]) : x \in ExamArgs }

NewAssignment ==
    \E r \in AssignmentCalls :
        /\ item' = Bound(r)
        /\ ret' = Call("Assignment", r.raised, None)
        /\ ItemFrame

NewProject ==
    \E r \in ProjectCalls :
        /\ item' = Bound(r)
        /\ ret' = Call("Project", r.raised, None)
        /\ ItemFrame

NewExam ==
    \E r \in ExamCalls :
        /\ item' = Bound(r)
        /\ ret' = Call("Exam", r.raised, None)
        /\ ItemFrame

ItemMarkCompleted ==
    /\ item # None
    /\ \E sc \in ItemScores, sd \in SubmissionDates :
        LET r == mark_completed(item[1], sc, sd, today)
        IN /\ item' = <<r.obj>>
           /\ ret' = [op |-> "mark_completed", raised |-> r.raised, value |-> None,
                      arg |-> [score |-> sc, submission_date |-> sd]]
    /\ ItemFrame

ItemSetStatus ==
    /\ item # None
    /\ \E v \in StatusValues :
        LET r == set_status(item[1], v)
        IN /\ item' = <<r.obj>>
           /\ ret' = Call("status", r.raised, None)
    /\ ItemFrame

ItemGetPriority ==
    /\ item # None
    /\ ret' = Call("get_priority", "none", Some(get_priority(item[1], today)))
    /\ UNCHANGED <<today, item, student_name, items, json_file, loaded, csv_file>>

\* a day passes
Tick ==
    /\ today < Today0 + MaxTicks
    /\ today' = today + 1
    /\ ret' = Call("tick", "none", None)
    /\ UNCHANGED <<item, student_name, items, json_file, loaded, csv_file>>


InitItem ==
    /\ today = Today0
    /\ item = None
    /\ student_name = s_Student
    /\ items = <<>>
    /\ json_file = None
    /\ loaded = FreshPlanner
    /\ csv_file = None
    /\ ret = Call("init", "none", None)

NextItem ==
    \/ NewAssignment
    \/ NewProject
    \/ NewExam
    \/ ItemMarkCompleted
    \/ ItemSetStatus
    \/ ItemGetPriority
    \/ Tick

\* one item object through its life: construction, completion, status
\* assignments, priority queries, while the days pass
SpecItem == InitItem /\ [][NextItem]_vars

\* the constructor calls with their arguments on record: what was handed in,
\* what was raised, and the object made
Constructed(op, r, args) ==
    [op |-> op, raised |-> r.raised,
     value |-> IF r.raised = "none" THEN Some(r.obj) ELSE None,
     arg |-> args]

ConstructAssignment ==
    \E x \in AssignmentArgs :
        LET r == Assignment_init(x[1].title, x[1].due_date, x[1].course_code,
                                 x[1].weight, s_homework, x[1].status, x[2])
        IN /\ item' = Bound(r)
           /\ ret' = Constructed("Assignment", r, x)
           /\ ItemFrame

ConstructProject ==
    \E x \in ProjectArgs :
        LET r == Project_init(x[1].title, x[1].due_date, x[1].course_code,
                              x[1].weight, x[1].status, x[2], x[3])
        IN /\ item' = Bound(r)
           /\ ret' = Constructed("Project", r, x)
           /\ ItemFrame

ConstructExam ==
    \E x \in ExamArgs :
        LET r == Exam_init(x[1].title, x[1].due_date, x[1].course_code,
                           x[1].weight, x[1].status, x[2], x[3])
        IN /\ item' = Bound(r)
           /\ ret' = Constructed("Exam", r, x)
           /\ ItemFrame

NextCtor ==
    \/ ConstructAssignment
    \/ ConstructProject
    \/ ConstructExam

\* the three constructors over valid and invalid arguments
SpecCtor == InitItem /\ [][NextCtor]_vars

\* the weights on both sides of the thresholds 15, 20 and 30
PriorityWeights == {0, 14, 15, 19, 20, 29, 30, 100}

\* one item of each class for every due day and weight of the table
PriorityItems ==
    UNION { { Assignment_init(s_HW1, StrftimeOf(Today0 + d), s_inst326, w,
                              s_homework, "not_started", 3504).obj,
              Project_init(s_HW1, StrftimeOf(Today0 + d), s_inst326, w,
                           "not_started", 3, 4).obj,
              Exam_init(s_HW1, StrftimeOf(Today0 + d), s_inst326, w,
                        "not_started", s_Final, 6).obj }
            : <<d, w>> \in PriorityDays \X PriorityWeights }

InitPriority ==
    /\ today = Today0
    /\ item \in {Some(it) : it \in PriorityItems}
    /\ student_name = s_Student
    /\ items = <<>>
    /\ json_file = None
    /\ loaded = FreshPlanner
    /\ csv_file = None
    /\ ret = Call("init", "none", None)

NextPriority ==
    \/ ItemGetPriority
    \/ ItemSetStatus

\* get_priority over the table of due days and weights
SpecPriority == InitPriority /\ [][NextPriority]_vars

NextClock ==
    \/ Tick
    \/ ItemGetPriority
    \/ ItemSetStatus

\* get_priority of the items of the table as the days pass
SpecClock == InitPriority /\ [][NextClock]_vars

(***************************************************************************)
(* The planner and its queries                                             *)
(***************************************************************************)
s_Quiz1 == <<"Q", "u", "i", "z", "1">>
s_Proj == <<"P", "r", "o", "j">>
s_cs101 == <<"c", "s", "1", "0", "1">>

\* the items handed to add_item, as their constructors build them
Catalog ==
    { Assignment_init(s_HW1, d_2025_09_27, s_inst326, 10, s_homework, "not_started", 3504).obj,
      Exam_init(s_Quiz1, d_2025_9_30, s_cs101, 25, "not_started", s_quiz, 2).obj,
      Project_init(s_Proj, d_2025_10_05, s_inst326, 40, "not_started", 3, 4).obj }

\* an object that is no AcademicItem
NotAnItem == [kind |-> "str"]

\* the days on which the planner is used: on the first the assignment is due
\* today, on the second it is overdue
PlannerDays == {Today0 + 1, Today0 + 2}

DaysAhead == {3, 10, 0}
WeeksAhead == {1, 2, 0}

PlannerFrame == UNCHANGED <<today, item, student_name, json_file, loaded, csv_file>>
QueryFrame == UNCHANGED <<today, item, student_name, items, json_file, loaded, csv_file>>

AddItem ==
    /\ Len(items) < MaxItems
    /\ \E x \in Catalog \cup {NotAnItem} :
        LET r == add_item(items, x)
        IN /\ items' = r.obj
           /\ ret' = [op |-> "add_item", raised |-> r.raised, value |-> None,
                      arg |-> x]
    /\ PlannerFrame

MarkCompleted ==
    /\ \E i \in 1..Len(items), sc \in Scores :
        LET r == mark_completed(items[i], sc, None, today)
        IN /\ items' = [items EXCEPT ![i] = r.obj]
           /\ ret' = Call("mark_completed", r.raised, None)
    /\ PlannerFrame

SetStatus ==
    /\ \E i \in 1..Len(items), v \in StatusValues :
        LET r == set_status(items[i], v)
        IN /\ items' = [items EXCEPT ![i] = r.obj]
           /\ ret' = Call("status", r.raised, None)
    /\ PlannerFrame

GetTotalWorkload ==
    /\ ret' = Call("get_total_workload", "none", Some(get_total_workload(items)))
    /\ QueryFrame

GetUpcomingDeadlines ==
    /\ \E days_ahead \in DaysAhead :
        LET r == get_upcoming_deadlines(items, days_ahead, today)
        IN ret' = [op |-> "get_upcoming_deadlines", raised |-> r.raised,
                   value |-> IF r.raised = "none" THEN Some(r.obj) ELSE None,
                   arg |-> days_ahead]
    /\ QueryFrame

CalculateWeeklyWorkload ==
    /\ \E weeks_ahead \in WeeksAhead :
        LET r == calculate_weekly_workload(items, weeks_ahead, today)
        IN ret' = [op |-> "calculate_weekly_workload", raised |-> r.raised,
                   value |-> IF r.raised = "none" THEN Some(r.obj) ELSE None,
                   arg |-> weeks_ahead]
    /\ QueryFrame

\* the planner is used on one of its days
Init ==
    /\ today \in PlannerDays
    /\ item = None
    /\ student_name = s_Student
    /\ items = <<>>
    /\ json_file = None
    /\ loaded = FreshPlanner
    /\ csv_file = None
    /\ ret = Call("init", "none", None)

Next ==
    \/ AddItem
    \/ MarkCompleted
    \/ SetStatus
    \/ GetTotalWorkload
    \/ GetUpcomingDeadlines
    \/ CalculateWeeklyWorkload

Spec == Init /\ [][Next]_vars

GetPrioritySummary ==
    /\ ret' = Call("get_priority_summary", "none",
                   Some(get_priority_summary(items, today)))
    /\ QueryFrame

GetCompletionStats ==
    /\ ret' = Call("get_completion_stats", "none", Some(get_completion_stats(items)))
    /\ QueryFrame

NextStats ==
    \/ AddItem
    \/ MarkCompleted
    \/ SetStatus
    \/ GetPrioritySummary
    \/ GetCompletionStats

\* the planner's item list and its two summaries
SpecStats == Init /\ [][NextStats]_vars

\* the two priority views of a planner
PriorityLevels == {"critical", "high", "medium", "low", "urgent"}

GetItemsByPriority ==
    /\ \E priority \in PriorityLevels :
        LET r == get_items_by_priority(items, priority, today)
        IN ret' = [op |-> "get_items_by_priority", raised |-> r.raised,
                   value |-> IF r.raised = "none" THEN Some(r.obj) ELSE None,
                   arg |-> priority]
    /\ QueryFrame

NextViews ==
    \/ AddItem
    \/ MarkCompleted
    \/ SetStatus
    \/ GetItemsByPriority

SpecViews == Init /\ [][NextViews]_vars

(***************************************************************************)
(* Persistence scenario: a planner is built, then saved, loaded, exported  *)
(***************************************************************************)
\* a planner file in the layout of academic_io, holding a completed
\* assignment with its score and an exam
IoDocument ==
    [valid |-> TRUE,
     root |-> [student_name |-> s_Student,
               generated_at |-> Strftime(Today0),
               items |-> << _serialize_item(
                                mark_completed(
                                    Assignment_init(s_HW1, d_2025_09_27, s_inst326, 10,
                                                    s_homework, "not_started", 3504).obj,
                                    85, None, Today0).obj),
                            _serialize_item(
                                Exam_init(s_Quiz1, d_2025_9_30, s_cs101, 25,
                                          "not_started", s_quiz, 2).obj) >>]]

\* the planner file found on disk at the start
FilesAtStart == {None, Some(IoDocument)}

\* nothing has been written or loaded yet
Building == json_file \in FilesAtStart /\ csv_file = None /\ loaded = FreshPlanner

SaveToJson ==
    /\ json_file' = save_to_json(student_name, items, today).obj
    /\ ret' = Call("save_to_json", "none", None)
    /\ UNCHANGED <<today, item, student_name, items, loaded, csv_file>>

LoadFromJson ==
    /\ LET r == load_from_json(loaded, json_file, today)
       IN /\ loaded' = r.obj
          /\ ret' = Call("load_from_json", r.raised, None)
    /\ UNCHANGED <<today, item, student_name, items, json_file, csv_file>>

SavePlannerToJson ==
    /\ LET r == save_planner_to_json(student_name, items, today)
       IN /\ json_file' = IF r.raised = "none" THEN r.obj ELSE json_file
          /\ ret' = Call("save_planner_to_json", r.raised, None)
    /\ UNCHANGED <<today, item, student_name, items, loaded, csv_file>>

LoadPlannerFromJson ==
    /\ LET r == load_planner_from_json(json_file, s_Temp)
       IN /\ loaded' = IF r.raised = "none" THEN r.obj ELSE loaded
          /\ ret' = Call("load_planner_from_json", r.raised, None)
    /\ UNCHANGED <<today, item, student_name, items, json_file, csv_file>>

ExportDeadlinesToCsv ==
    /\ \E days_ahead \in DaysAhead :
        LET r == export_deadlines_to_csv(items, days_ahead, today)
        IN /\ csv_file' = IF r.raised = "none" THEN r.obj ELSE csv_file
           /\ ret' = [op |-> "export_deadlines_to_csv", raised |-> r.raised,
                      value |-> None, arg |-> days_ahead]
    /\ UNCHANGED <<today, item, student_name, items, json_file, loaded>>

\* AcademicPlanner's own JSON methods: save_to_json, then load_from_json
\* into the second planner
InitJson ==
    /\ today \in PlannerDays
    /\ item = None
    /\ student_name = s_Student
    /\ items = <<>>
    /\ json_file = None
    /\ loaded = FreshPlanner
    /\ csv_file = None
    /\ ret = Call("init", "none", None)

NextJson ==
    \/ (Building /\ AddItem)
    \/ (Building /\ MarkCompleted)
    \/ (Building /\ SetStatus)
    \/ SaveToJson
    \/ LoadFromJson

SpecJson == InitJson /\ [][NextJson]_vars

\* the JSON functions of academic_io beside the planner's own methods
InitIO ==
    /\ today \in PlannerDays
    /\ item = None
    /\ student_name = s_Student
    /\ items = <<>>
    /\ json_file \in FilesAtStart
    /\ loaded = FreshPlanner
    /\ csv_file = None
    /\ ret = Call("init", "none", None)

NextIO ==
    \/ (Building /\ AddItem)
    \/ (Building /\ MarkCompleted)
    \/ (Building /\ SetStatus)
    \/ SaveToJson
    \/ LoadFromJson
    \/ SavePlannerToJson
    \/ LoadPlannerFromJson

SpecIO == InitIO /\ [][NextIO]_vars

\* the deadlines of a planner and their CSV export
NextCsv ==
    \/ (Building /\ AddItem)
    \/ (Building /\ MarkCompleted)
    \/ (Building /\ SetStatus)
    \/ GetUpcomingDeadlines
    \/ ExportDeadlinesToCsv

SpecCsv == Init /\ [][NextCsv]_vars

(***************************************************************************)
(* CSV files of items                                                      *)
(*                                                                         *)
(* A CSV file is [header, rows]: the header is the sequence of its column  *)
(* names, a row the sequence of its cells, each cell a str.  Numbers read  *)
(* by float() are carried in thousandths, as the hours of an item are.     *)
(***************************************************************************)
\* csv.DictReader: the row as a dict over the columns of the header; a
\* column the row is too short for holds None, cells beyond the header
\* go under a key that is never read
ColumnIndex(header, k) == CHOOSE i \in 1..Len(header) : header[i] = k

DictReaderRow(header, cells) ==
    [k \in {header[i] : i \in 1..Len(header)} |->
        IF ColumnIndex(header, k) <= Len(cells)
        THEN Some(cells[ColumnIndex(header, k)]) ELSE None]

\* row.get(key) or default, and row.get(key, default) or default
GetOr(row, key, default) ==
    IF key \notin DOMAIN row THEN default
    ELSE IF row[key] = None THEN default
    ELSE IF row[key][1] = <<>> THEN default
    ELSE row[key][1]

\* the digits of a float literal: digits, or digits with one point among
\* them; exponents, inf and nan are not among the cells of the model
DotAt(u) == {i \in 1..Len(u) : u[i] = "."}
Unsigned(t) == IF t # <<>> /\ Head(t) \in {"-", "+"} THEN Tail(t) ELSE t
Sign(t) == IF t # <<>> /\ Head(t) = "-" THEN 0 - 1 ELSE 1
IntDigits(u) == IF DotAt(u) = {} THEN u ELSE SubSeq(u, 1, (CHOOSE i \in DotAt(u) : TRUE) - 1)
FracDigits(u) == IF DotAt(u) = {} THEN <<>> ELSE SubSeq(u, (CHOOSE i \in DotAt(u) : TRUE) + 1, Len(u))
Thousandths(frac) == Num(SubSeq(frac \o <<"0", "0", "0">>, 1, 3))

IsFloatLiteral(u) ==
    /\ Cardinality(DotAt(u)) <= 1
    /\ \A i \in 1..Len(u) : u[i] = "." \/ IsDigit(u[i])
    /\ Len(u) > Cardinality(DotAt(u))

\* float(v): None is a TypeError, a str that is no number a ValueError
PyFloat(v) ==
    IF v = None THEN Raise("TypeError")
    ELSE IF ~IsFloatLiteral(Unsigned(Strip(v[1]))) THEN Raise("ValueError")
    ELSE Return(Sign(Strip(v[1])) * (1000 * Num(IntDigits(Unsigned(Strip(v[1]))))
                                     + Thousandths(FracDigits(Unsigned(Strip(v[1]))))))

\* int(v)
PyInt(v) ==
    IF v = None THEN Raise("TypeError")
    ELSE IF Unsigned(Strip(v[1])) = <<>> \/ ~AllDigits(Unsigned(Strip(v[1])))
    THEN Raise("ValueError")
    ELSE Return(Sign(Strip(v[1])) * Num(Unsigned(Strip(v[1]))))

\* a weight read by float(), in the whole units of the model: a fraction
\* goes to the next whole number away from zero, so that 0 <= weight <= 100
\* decides as it does on the float
WeightUnits(milli) == IF milli >= 0 THEN (milli + 999) \div 1000 ELSE milli \div 1000

\* str(x) of a float given in thousandths
RECURSIVE Digits(_)
Digits(n) == IF n < 10 THEN <<DigitCh(n)>> ELSE Digits(n \div 10) \o <<DigitCh(n % 10)>>

RECURSIVE DropZeros(_)
DropZeros(f) ==
    IF Len(f) > 1 /\ f[Len(f)] = "0" THEN DropZeros(SubSeq(f, 1, Len(f) - 1)) ELSE f

FloatStr(milli) ==
    Digits(milli \div 1000) \o <<".">>
        \o DropZeros(<<DigitCh((milli % 1000) \div 100), DigitCh((milli % 100) \div 10),
                       DigitCh(milli % 10)>>)

\* str(item.get_priority())
PriorityCell(p) ==
    CASE p = "critical" -> <<"c", "r", "i", "t", "i", "c", "a", "l">>
      [] p = "high" -> <<"h", "i", "g", "h">>
      [] p = "medium" -> <<"m", "e", "d", "i", "u", "m">>
      [] p = "low" -> <<"l", "o", "w">>

PlannerCsvHeader ==
    <<"type", "title", "due_date", "course_code", "weight", "priority", "hours_needed">>

\* AcademicPlanner.export_to_csv: the file written
export_to_csv(its, now) ==
    Some([header |-> PlannerCsvHeader,
          rows |-> [i \in 1..Len(its) |->
                      << get_item_type(its[i]), its[i].title, its[i].due_date,
                         its[i].course_code, FloatStr(1000 * its[i].weight),
                         PriorityCell(get_priority(its[i], now)),
                         FloatStr(calculate_time_commitment(its[i])) >>]])

\* float(row.get(key, 0.0) or 0.0) and int(row.get(key, d) or d)
FloatOrDefault(row, key, default) ==
    IF GetOr(row, key, <<>>) = <<>> THEN Return(default) ELSE PyFloat(row[key])

IntOrDefault(row, key, default) ==
    IF GetOr(row, key, <<>>) = <<>> THEN Return(default) ELSE PyInt(row[key])

\* the constructors called with cells of the row: a None in the place of
\* the title or the course code fails isinstance(..., str), a None in the
\* place of the date is a TypeError of strptime
NoneArgument(row, weight) ==
    IF row["title"] = None \/ row["course_code"] = None THEN Raise("ValueError")
    ELSE IF ~(0 <= weight /\ weight <= 100) THEN Raise("ValueError")
    ELSE Raise("TypeError")

HasNoneArgument(row) ==
    row["title"] = None \/ row["course_code"] = None \/ row["due_date"] = None

\* the outcome of reading one row: an exception, or <<item>>, or <<>> when
\* the row is passed over by  continue
Built(r) == IF r.raised = "none" THEN Return(Some(r.obj)) ELSE r

ImportAssignment(row, weight, est) ==
    IF est.raised # "none" THEN est
    ELSE IF HasNoneArgument(row) THEN NoneArgument(row, weight)
    ELSE Built(Assignment_init(row["title"][1], row["due_date"][1], row["course_code"][1],
                               weight, s_homework, "not_started", est.obj))

ImportProject(row, weight, milestones, team_size) ==
    IF milestones.raised # "none" THEN milestones
    ELSE IF team_size.raised # "none" THEN team_size
    ELSE IF HasNoneArgument(row) THEN NoneArgument(row, weight)
    ELSE Built(Project_init(row["title"][1], row["due_date"][1], row["course_code"][1],
                            weight, "not_started", milestones.obj, team_size.obj))

\* exam_type = row.get("exam_type", "exam"): a None of a short row reaches
\* exam_type.lower() in Exam.__init__
ImportExam(row, weight, chapters) ==
    IF chapters.raised # "none" THEN chapters
    ELSE IF HasNoneArgument(row) THEN NoneArgument(row, weight)
    ELSE IF "exam_type" \notin DOMAIN row
    THEN Built(Exam_init(row["title"][1], row["due_date"][1], row["course_code"][1],
                         weight, "not_started", s_exam, chapters.obj))
    ELSE IF row["exam_type"] = None
    THEN (IF AcademicItem_init(row["title"][1], row["due_date"][1], row["course_code"][1],
                               weight, "not_started").raised = "none"
          THEN Raise("AttributeError") ELSE Raise("ValueError"))
    ELSE Built(Exam_init(row["title"][1], row["due_date"][1], row["course_code"][1],
                         weight, "not_started", row["exam_type"][1], chapters.obj))

RequiredColumns == {"title", "due_date", "course_code", "weight"}

\* the body of the loop of AcademicPlanner.import_from_csv
ImportTyped(row, item_type, weight) ==
    IF weight.raised # "none" THEN weight
    ELSE IF Contains(item_type, s_ASSIGNMENT)
    THEN ImportAssignment(row, WeightUnits(weight.obj),
                          FloatOrDefault(row, "estimated_hours", 0))
    ELSE IF Contains(item_type, s_PROJECT)
    THEN ImportProject(row, WeightUnits(weight.obj),
                       IntOrDefault(row, "num_milestones", 0),
                       IntOrDefault(row, "team_size", 1))
    ELSE IF Contains(item_type, s_EXAM)
    THEN ImportExam(row, WeightUnits(weight.obj), IntOrDefault(row, "num_chapters", 0))
    ELSE Return(None)

ImportRow(row) ==
    IF ~(RequiredColumns \subseteq DOMAIN row) THEN Raise("KeyError")
    ELSE ImportTyped(row, Upper(GetOr(row, "type", <<>>)), PyFloat(row["weight"]))

\* the loop: KeyError and ValueError skip the row, any other exception
\* leaves the method with the items added so far
RECURSIVE ImportRows(_, _, _, _)
ImportNext(its, header, rest, count, r) ==
    IF r.raised = "none" /\ r.obj # None
    THEN ImportRows(add_item(its, r.obj[1]).obj, header, rest, count + 1)
    ELSE IF r.raised \in {"none", "KeyError", "ValueError"}
    THEN ImportRows(its, header, rest, count)
    ELSE [raised |-> r.raised, obj |-> its, count |-> count]

ImportRows(its, header, rows, count) ==
    IF rows = <<>> THEN [raised |-> "none", obj |-> its, count |-> count]
    ELSE IF Head(rows) = <<>> THEN ImportRows(its, header, Tail(rows), count)
    ELSE ImportNext(its, header, Tail(rows), count,
                    ImportRow(DictReaderRow(header, Head(rows))))

\* AcademicPlanner.import_from_csv: the items of the planner afterwards and
\* the count returned
import_from_csv(its, file) ==
    IF file = None THEN [raised |-> "FileNotFoundError", obj |-> its, count |-> 0]
    ELSE ImportRows(its, file[1].header, file[1].rows, 0)

\* academic_io.import_items_from_csv: every cell is stripped, an empty or
\* missing required cell passes the row over
Cell(row, key) == Strip(GetOr(row, key, <<>>))

FloatOfStripped(s, default) == IF s = <<>> THEN Return(default) ELSE PyFloat(Some(s))
IntOfStripped(s, default) == IF s = <<>> THEN Return(default) ELSE PyInt(Some(s))

ItemsAssignment(row, weight, est) ==
    IF est.raised # "none" THEN est
    ELSE Built(Assignment_init(Cell(row, "title"), Cell(row, "due_date"),
                               Cell(row, "course_code"), weight, s_homework,
                               "not_started", est.obj))

ItemsProject(row, weight, num_milestones, team_size) ==
    IF num_milestones.raised # "none" THEN num_milestones
    ELSE IF team_size.raised # "none" THEN team_size
    ELSE Built(Project_init(Cell(row, "title"), Cell(row, "due_date"),
                            Cell(row, "course_code"), weight, "not_started",
                            num_milestones.obj, team_size.obj))

ItemsExam(row, weight, exam_type, num_chapters) ==
    IF num_chapters.raised # "none" THEN num_chapters
    ELSE Built(Exam_init(Cell(row, "title"), Cell(row, "due_date"),
                         Cell(row, "course_code"), weight, "not_started",
                         exam_type, num_chapters.obj))

ItemsTyped(row, item_type, weight) ==
    IF weight.raised # "none" THEN weight
    ELSE IF item_type = s_Assignment
    THEN ItemsAssignment(row, WeightUnits(weight.obj),
                         FloatOfStripped(Strip(GetOr(row, "estimated_hours", <<"0">>)), 0))
    ELSE IF item_type = s_Project
    THEN ItemsProject(row, WeightUnits(weight.obj),
                      IntOfStripped(Strip(GetOr(row, "num_milestones", <<"0">>)), 0),
                      IntOfStripped(Strip(GetOr(row, "team_size", <<"1">>)), 1))
    ELSE IF item_type = s_Exam
    THEN ItemsExam(row, WeightUnits(weight.obj),
                   Strip(GetOr(row, "exam_type", s_exam)),
                   IntOfStripped(Strip(GetOr(row, "num_chapters", <<"0">>)), 0))
    ELSE Return(None)

ItemsRow(row) ==
    IF \E k \in {"type", "title", "due_date", "course_code", "weight"} : Cell(row, k) = <<>>
    THEN Return(None)
    ELSE ItemsTyped(row, Cell(row, "type"), PyFloat(Some(Cell(row, "weight"))))

\* the loop: ValueError and TypeError skip the row
RECURSIVE ItemsRows(_, _, _)
ItemsNext(its, header, rest, r) ==
    IF r.raised = "none" /\ r.obj # None
    THEN ItemsRows(Append(its, r.obj[1]), header, rest)
    ELSE IF r.raised \in {"none", "ValueError", "TypeError"}
    THEN ItemsRows(its, header, rest)
    ELSE [raised |-> r.raised, obj |-> its, count |-> Len(its)]

ItemsRows(its, header, rows) ==
    IF rows = <<>> THEN [raised |-> "none", obj |-> its, count |-> Len(its)]
    ELSE IF Head(rows) = <<>> THEN ItemsRows(its, header, Tail(rows))
    ELSE ItemsNext(its, header, Tail(rows), ItemsRow(DictReaderRow(header, Head(rows))))

import_items_from_csv(file) ==
    IF file = None THEN [raised |-> "FileNotFoundError", obj |-> <<>>, count |-> 0]
    ELSE ItemsRows(<<>>, file[1].header, file[1].rows)

(***************************************************************************)
(* CSV import scenario: a file is written by hand, row by row, then read   *)
(* by the two importers                                                    *)
(***************************************************************************)
MaxRows == 2        \* a CSV file holds at most this many rows

s_Essay == <<"E", "s", "s", "a", "y">>
s_10 == <<"1", "0">>
s_40 == <<"4", "0">>
s_25 == <<"2", "5">>
s_abc == <<"a", "b", "c">>
s_3_5 == <<"3", ".", "5">>
s_3 == <<"3">>
s_4 == <<"4">>
s_2 == <<"2">>

RequiredHeader == <<"type", "title", "due_date", "course_code", "weight">>
OptionalHeader ==
    <<"estimated_hours", "num_milestones", "team_size", "exam_type", "num_chapters">>

\* the headers of the files: the required columns, all ten columns, and a
\* header without the weight column
CsvHeaders ==
    { RequiredHeader,
      RequiredHeader \o OptionalHeader,
      SubSeq(RequiredHeader, 1, 4) }

\* the rows written: the three types with their required cells only, with
\* their optional cells filled, with empty optional cells; then rows with
\* no weight cell, a weight that is no number, an empty weight, a blank
\* title, a number of milestones that is no number, and an unknown type
CsvRows ==
    { <<s_Assignment, s_HW1, d_2025_09_27, s_inst326, s_10>>,
      <<s_Project, s_Proj, d_2025_10_05, s_inst326, s_40>>,
      <<s_Exam, s_Quiz1, d_2025_9_30, s_cs101, s_25>>,
      <<s_Assignment, s_HW1, d_2025_09_27, s_inst326, s_10, s_3_5, <<>>, <<>>, <<>>, <<>> >>,
      <<s_Project, s_Proj, d_2025_10_05, s_inst326, s_40, <<>>, s_3, s_4, <<>>, <<>> >>,
      <<s_Exam, s_Quiz1, d_2025_9_30, s_cs101, s_25, <<>>, <<>>, <<>>, s_quiz, s_2>>,
      <<s_Project, s_Proj, d_2025_10_05, s_inst326, s_40, <<>>, <<>>, <<>>, <<>>, <<>> >>,
      <<s_Assignment, s_HW1, d_2025_09_27, s_inst326>>,
      <<s_Assignment, s_HW1, d_2025_09_27, s_inst326, s_abc>>,
      <<s_Assignment, s_HW1, d_2025_09_27, s_inst326, <<>> >>,
      <<s_Assignment, s_blank, d_2025_09_27, s_inst326, s_10>>,
      <<s_Project, s_Proj, d_2025_10_05, s_inst326, s_40, <<>>, s_abc, s_4, <<>>, <<>> >>,
      <<s_Essay, s_HW1, d_2025_09_27, s_inst326, s_10>> }

ImportFrame == UNCHANGED <<today, item, student_name, items, json_file>>

\* a row is added to the file, before the file is read
WriteRow ==
    /\ ret.op \in {"init", "write_row"}
    /\ csv_file # None
    /\ Len(csv_file[1].rows) < MaxRows
    /\ \E cells \in CsvRows :
        csv_file' = Some([csv_file[1] EXCEPT !.rows = Append(@, cells)])
    /\ ret' = Call("write_row", "none", None)
    /\ UNCHANGED loaded
    /\ ImportFrame

\* the second planner, still empty, imports the file
ImportFromCsv ==
    /\ loaded.items = <<>>
    /\ LET r == import_from_csv(loaded.items, csv_file)
       IN /\ loaded' = [loaded EXCEPT !.items = r.obj]
          /\ ret' = Call("import_from_csv", r.raised,
                         IF r.raised = "none" THEN Some(r.count) ELSE None)
    /\ UNCHANGED csv_file
    /\ ImportFrame

ImportItemsFromCsv ==
    /\ LET r == import_items_from_csv(csv_file)
       IN ret' = Call("import_items_from_csv", r.raised,
                      IF r.raised = "none" THEN Some(r.obj) ELSE None)
    /\ UNCHANGED <<loaded, csv_file>>
    /\ ImportFrame

InitImport ==
    /\ today = Today0 + 1
    /\ item = None
    /\ student_name = s_Student
    /\ items = <<>>
    /\ json_file = None
    /\ loaded = FreshPlanner
    /\ csv_file \in {Some([header |-> h, rows |-> <<>>]) : h \in CsvHeaders}
    /\ ret = Call("init", "none", None)

NextImport ==
    \/ WriteRow
    \/ ImportFromCsv
    \/ ImportItemsFromCsv

SpecImport == InitImport /\ [][NextImport]_vars

\* a planner is built, exported with export_to_csv, and the file imported
\* into the second planner
ExportToCsv ==
    /\ csv_file' = export_to_csv(items, today)
    /\ ret' = Call("export_to_csv", "none", None)
    /\ UNCHANGED <<today, item, student_name, items, json_file, loaded>>

NextCsvRoundTrip ==
    \/ (Building /\ AddItem)
    \/ (Building /\ MarkCompleted)
    \/ (Building /\ SetStatus)
    \/ ExportToCsv
    \/ ImportFromCsv

SpecCsvRoundTrip == Init /\ [][NextCsvRoundTrip]_vars

(***************************************************************************)
(* JSON bulk load scenario: a planner file is written record by record,    *)
(* then loaded by the two loaders                                          *)
(***************************************************************************)
MaxRecords == 2     \* a planner file holds at most this many item records

\* the records of the catalog's items as academic_io writes them
GoodRecords == {_serialize_item(x) : x \in Catalog}

\* records that cannot be loaded: one that is no object, one without a
\* title, one of an unknown type, one with a weight above 100
BadRecords ==
    { JsonString,
      [type |-> s_Exam, due_date |-> d_2025_9_30, course_code |-> s_cs101, weight |-> 25],
      [type |-> s_Essay, title |-> s_Quiz1, due_date |-> d_2025_9_30,
       course_code |-> s_cs101, weight |-> 25],
      [type |-> s_Exam, title |-> s_Quiz1, due_date |-> d_2025_9_30,
       course_code |-> s_cs101, weight |-> 101, exam_type |-> s_quiz,
       num_chapters |-> 2] }

WriteRecord ==
    /\ ret.op \in {"init", "write_record"}
    /\ json_file # None
    /\ Len(json_file[1].root.items) < MaxRecords
    /\ \E rec \in GoodRecords \cup BadRecords :
        json_file' = Some([json_file[1] EXCEPT !.root.items = Append(@, rec)])
    /\ ret' = Call("write_record", "none", None)
    /\ UNCHANGED <<today, item, student_name, items, loaded, csv_file>>

InitLoad ==
    /\ today \in PlannerDays
    /\ item = None
    /\ student_name = s_Student
    /\ items = <<>>
    /\ json_file = Some([valid |-> TRUE,
                         root |-> [student_name |-> s_Student, items |-> <<>>]])
    /\ loaded = FreshPlanner
    /\ csv_file = None
    /\ ret = Call("init", "none", None)

NextLoad ==
    \/ WriteRecord
    \/ LoadFromJson
    \/ LoadPlannerFromJson

SpecLoad == InitLoad /\ [][NextLoad]_vars

(***************************************************************************)
(* JSON files scenario: files of several shapes are put on disk and read   *)
(* by the two loaders into the second planner                              *)
(***************************************************************************)
s_Other == <<"O", "t", "h", "e", "r">>

\* a file whose text is no JSON
InvalidFile == [valid |-> FALSE, root |-> [json |-> "none"]]

\* the exam of the catalog as a record both loaders read
ExamRecord == _serialize_item(Exam_init(s_Quiz1, d_2025_9_30, s_cs101, 25,
                                        "not_started", s_quiz, 2).obj)

\* the files: none, one that is no JSON, a JSON string, an object without
\* items, an object whose student_name is null, a planner file with one
\* exam, and the planner file of academic_io
LoadFiles ==
    { None,
      Some(InvalidFile),
      Some([valid |-> TRUE, root |-> JsonString]),
      Some([valid |-> TRUE, root |-> [student_name |-> s_Other]]),
      Some([valid |-> TRUE, root |-> [student_name |-> <<>>, items |-> <<ExamRecord>>]]),
      Some([valid |-> TRUE, root |-> [student_name |-> s_Other, items |-> <<ExamRecord>>]]),
      Some(IoDocument) }

PutFile ==
    /\ \E f \in LoadFiles : json_file' = f
    /\ ret' = Call("put_file", "none", None)
    /\ UNCHANGED <<today, item, student_name, items, loaded, csv_file>>

InitFiles ==
    /\ today \in PlannerDays
    /\ item = None
    /\ student_name = s_Student
    /\ items = <<>>
    /\ json_file \in LoadFiles
    /\ loaded = FreshPlanner
    /\ csv_file = None
    /\ ret = Call("init", "none", None)

NextFiles ==
    \/ PutFile
    \/ LoadFromJson
    \/ LoadPlannerFromJson

SpecFiles == InitFiles /\ [][NextFiles]_vars

(***************************************************************************)
(* Single records: one item record is handed to _item_from_dict or to      *)
(* _deserialize_item                                                       *)
(***************************************************************************)
s_Example == <<"E", "x", "a", "m", "p", "l", "e">>

\* the type tags tried: the class names, the tags get_item_type gives,
\* two tags of no class, and the empty tag
TypeTags ==
    { s_Assignment, s_Project, s_Exam, s_ASSIGNMENT, s_PROJECT,
      s_EXAM_dash \o Upper(s_quiz), s_Essay, s_Example, <<>> }

\* a record with the fields of every class
FullRecord ==
    [title |-> s_Quiz1, due_date |-> d_2025_9_30, course_code |-> s_cs101,
     weight |-> 25, status |-> "not_started", score |-> None,
     estimated_hours |-> 3504, num_milestones |-> 3, team_size |-> 4,
     exam_type |-> s_quiz, num_chapters |-> 2]

\* the record as it is, completed with a score, with a weight above 100,
\* and without its title
RecordBodies ==
    { FullRecord,
      [FullRecord EXCEPT !.status = "completed", !.score = Some(85)],
      [FullRecord EXCEPT !.weight = 101],
      [k \in (DOMAIN FullRecord) \ {"title"} |-> FullRecord[k]] }

\* the records handed over: every body under every tag, and without a tag
Records == {b @@ [type |-> t] : b \in RecordBodies, t \in TypeTags} \cup RecordBodies

ItemFromDict ==
    /\ \E data \in Records :
        /\ item' = Bound(_item_from_dict(data, today))
        /\ ret' = [op |-> "_item_from_dict", raised |-> _item_from_dict(data, today).raised,
                   value |-> None, arg |-> data]
    /\ ItemFrame

DeserializeItem ==
    /\ \E data \in Records :
        /\ item' = Bound(_deserialize_item(data))
        /\ ret' = [op |-> "_deserialize_item", raised |-> _deserialize_item(data).raised,
                   value |-> None, arg |-> data]
    /\ ItemFrame

NextRecord ==
    \/ ItemFromDict
    \/ DeserializeItem

SpecRecord == InitItem /\ [][NextRecord]_vars

(***************************************************************************)
(* C1: for every variant, due date and weight, once mark_completed(score)  *)
(* has succeeded get_priority() returns 'low'.                             *)
(***************************************************************************)
C1_CompletedIsLow ==
    (ret.op = "mark_completed" /\ ret.raised = "none")
        => get_priority(item[1], today) = "low"

\* an overdue exam (critical until then) has just been completed
C1_Witness ==
    /\ ret.op = "mark_completed" /\ ret.raised = "none"
    /\ item[1].kind = "Exam"
    /\ days_until_due(item[1], today) < 0

(***************************************************************************)
(* C2: in every state reached by construction, mark_completed and status   *)
(* assignments, the score of an item is non-null only if its status is     *)
(* 'completed'.                                                            *)
(***************************************************************************)
C2_ScoreOnlyIfCompleted ==
    item # None => (item[1].score # None => item[1].status = "completed")

(***************************************************************************)
(* C3: save_to_json of a planner followed by load_from_json into another   *)
(* planner yields a planner with the same number of items and the same     *)
(* get_total_workload().                                                   *)
(***************************************************************************)
C3_JsonRoundTrip ==
    (ret.op = "load_from_json" /\ json_file # None) =>
        /\ ret.raised = "none"
        /\ Len(loaded.items) = Len(items)
        /\ get_total_workload(loaded.items) = get_total_workload(items)

\* a planner holding a completed item with its score and an item set back
\* after completion has been saved and loaded
C3_Witness ==
    /\ ret.op = "load_from_json" /\ ret.raised = "none"
    /\ Len(loaded.items) = 2
    /\ \E i, j \in 1..Len(items) :
        /\ items[i].status = "completed" /\ items[i].score # None
        /\ items[j].status = "in_progress" /\ items[j].score # None
    /\ get_total_workload(items) > 0

(***************************************************************************)
(* C4: academic_io.save_planner_to_json followed by load_planner_from_json *)
(* completes without error, for a planner holding items completed with a   *)
(* score too, and yields a planner with the same number of items, the same *)
(* concrete types and the same number of completed items.                  *)
(***************************************************************************)
\* the file holds a document whose records carry the type tags of academic_io
IoLayout(file) ==
    /\ file # None
    /\ file[1].valid
    /\ \A k \in 1..Len(file[1].root.items) :
        file[1].root.items[k].type \in DOMAIN ITEM_CLASS_MAP

\* the file holds the records _serialize_item makes of these items
SerializedFrom(file, its) ==
    /\ IoLayout(file)
    /\ Len(file[1].root.items) = Len(its)
    /\ \A k \in 1..Len(its) : file[1].root.items[k] = _serialize_item(its[k])

CompletedCount(its) == Cardinality({k \in 1..Len(its) : its[k].status = "completed"})

C4_IoRoundTrip ==
    /\ ret.op = "save_planner_to_json" =>
        ret.raised = "none" /\ SerializedFrom(json_file, items)
    /\ (ret.op = "load_planner_from_json" /\ IoLayout(json_file)) =>
        ret.raised = "none"
    /\ (ret.op = "load_planner_from_json" /\ SerializedFrom(json_file, items)) =>
        /\ Len(loaded.items) = Len(items)
        /\ \A k \in 1..Len(items) : loaded.items[k].kind = items[k].kind
        /\ CompletedCount(loaded.items) = CompletedCount(items)

(***************************************************************************)
(* Claims about the planner queries                                        *)
(***************************************************************************)
\* the latest call returned the list of get_upcoming_deadlines
GotDeadlines == ret.op = "get_upcoming_deadlines" /\ ret.raised = "none"

\* the record is the one get_upcoming_deadlines builds from this item
RecordOf(rec, it) ==
    /\ rec.title = it.title
    /\ rec.due_date = it.due_date
    /\ rec.type = get_item_type(it)

InWindow(it, days_ahead) ==
    today <= DateOf(it.due_date) /\ DateOf(it.due_date) <= today + days_ahead

(***************************************************************************)
(* C5: get_upcoming_deadlines(days_ahead) never returns a record for an    *)
(* item whose status is 'completed': the records of an item are no more    *)
(* than the items of that title, date and type that are not completed.     *)
(***************************************************************************)
C5_NoCompletedDeadline ==
    GotDeadlines =>
        \A k \in 1..Len(ret.value[1]) :
            Cardinality({j \in 1..Len(ret.value[1]) : ret.value[1][j] = ret.value[1][k]})
                <= Cardinality({i \in 1..Len(items) :
                        /\ RecordOf(ret.value[1][k], items[i])
                        /\ items[i].status # "completed"})

(***************************************************************************)
(* C6: for a positive days_ahead every record returned has a due date d    *)
(* with today <= d <= today + days_ahead, and every item that is not       *)
(* completed and is due in that window has its record in the result.       *)
(***************************************************************************)
C6_DeadlinesWindow ==
    GotDeadlines =>
        /\ \A k \in 1..Len(ret.value[1]) :
            /\ today <= DateOf(ret.value[1][k].due_date)
            /\ DateOf(ret.value[1][k].due_date) <= today + ret.arg
        /\ \A i \in 1..Len(items) :
            (items[i].status # "completed" /\ InWindow(items[i], ret.arg)) =>
                Cardinality({k \in 1..Len(ret.value[1]) : RecordOf(ret.value[1][k], items[i])})
                    >= Cardinality({j \in 1..Len(items) :
                            /\ items[j].status # "completed"
                            /\ RecordOf(DeadlineRecord(items[i], today), items[j])})

\* a query that returned an item due today and left out one due after the cutoff
C6_Witness ==
    /\ GotDeadlines
    /\ \E i, j \in 1..Len(items) :
        /\ items[i].status # "completed"
        /\ DateOf(items[i].due_date) = today
        /\ \E k \in 1..Len(ret.value[1]) : RecordOf(ret.value[1][k], items[i])
        /\ DateOf(items[j].due_date) > today + ret.arg
        /\ \A k \in 1..Len(ret.value[1]) : ~RecordOf(ret.value[1][k], items[j])

(***************************************************************************)
(* C7: the list get_upcoming_deadlines returns is in non-decreasing        *)
(* chronological order of due date, for any due dates the constructors     *)
(* accepted.                                                               *)
(***************************************************************************)
C7_Chronological ==
    GotDeadlines =>
        \A j, k \in 1..Len(ret.value[1]) :
            j < k => DateOf(ret.value[1][j].due_date) <= DateOf(ret.value[1][k].due_date)

(***************************************************************************)
(* C8: every record get_upcoming_deadlines returns carries the course_code *)
(* of its item, and every data row export_deadlines_to_csv writes has the  *)
(* item's course code in the course_code column.                           *)
(***************************************************************************)
CarriesCourseCode(rec) ==
    /\ "course_code" \in DOMAIN rec
    /\ \E i \in 1..Len(items) :
        RecordOf(rec, items[i]) /\ rec.course_code = items[i].course_code

C8_CourseCode ==
    /\ GotDeadlines =>
        \A k \in 1..Len(ret.value[1]) : CarriesCourseCode(ret.value[1][k])
    /\ (ret.op = "export_deadlines_to_csv" /\ ret.raised = "none") =>
        \A k \in 1..Len(csv_file[1].rows) : CarriesCourseCode(csv_file[1].rows[k])

(***************************************************************************)
(* C9: an item whose status is 'completed' contributes 0 hours to every    *)
(* week of calculate_weekly_workload(weeks_ahead): the result is the one   *)
(* of the planner without its completed items.                             *)
(***************************************************************************)
NotCompleted(it) == it.status # "completed"

C9_CompletedNotInWeeks ==
    (ret.op = "calculate_weekly_workload" /\ ret.raised = "none") =>
        ret.value[1] =
            calculate_weekly_workload(SelectSeq(items, NotCompleted), ret.arg, today).obj

(***************************************************************************)
(* C10: get_total_workload() is the sum of calculate_time_commitment()     *)
(* over exactly the items whose status is not 'completed', rounded to two  *)
(* decimals as the method returns it.                                      *)
(***************************************************************************)
RECURSIVE SumCommitment(_)
SumCommitment(S) ==
    IF S = {} THEN 0
    ELSE LET i == CHOOSE x \in S : TRUE
         IN calculate_time_commitment(items[i]) + SumCommitment(S \ {i})

C10_TotalWorkload ==
    ret.op = "get_total_workload" =>
        ret.value[1] =
            Round2(SumCommitment({i \in 1..Len(items) : items[i].status # "completed"}))

\* the total of a planner holding a completed item and one that was
\* completed and then set back
C10_Witness ==
    /\ ret.op = "get_total_workload"
    /\ ret.value[1] > 0
    /\ \E i, j \in 1..Len(items) :
        /\ items[i].status = "completed"
        /\ items[j].status # "completed" /\ items[j].score # None

(***************************************************************************)
(* C11: get_priority_summary() counts all items of the planner, the        *)
(* completed ones included (they count as low): the four counts sum to the *)
(* number of items.                                                        *)
(***************************************************************************)
C11_SummaryCountsAll ==
    ret.op = "get_priority_summary" =>
        /\ ret.value[1].critical + ret.value[1].high + ret.value[1].medium
              + ret.value[1].low = Len(items)
        /\ ret.value[1].low >= Cardinality({i \in 1..Len(items) :
                                                items[i].status = "completed"})

\* the summary of a planner holding a completed item beside an open one
C11_Witness ==
    /\ ret.op = "get_priority_summary"
    /\ Len(items) = 2
    /\ items[1].status = "completed"
    /\ items[2].status # "completed"
    /\ ret.value[1].low >= 1

(***************************************************************************)
(* C12: get_completion_stats() has completed + in_progress + not_started   *)
(* = total_items = the number of items; with 0 items every count is 0 and  *)
(* completion_rate and average_score are 0.0.                              *)
(***************************************************************************)
C12_StatsAddUp ==
    ret.op = "get_completion_stats" =>
        /\ ret.raised = "none"
        /\ ret.value[1].completed + ret.value[1].in_progress
              + ret.value[1].not_started = ret.value[1].total_items
        /\ ret.value[1].total_items = Len(items)
        /\ items = <<>> =>
            ret.value[1] = [total_items |-> 0, completed |-> 0, in_progress |-> 0,
                            not_started |-> 0, completion_rate |-> 0,
                            average_score |-> 0]

\* the statistics of a planner with an item completed through the status
\* setter, which has no score
C12_Witness ==
    /\ ret.op = "get_completion_stats"
    /\ Len(items) = 2
    /\ \E i \in 1..2 : items[i].status = "completed" /\ items[i].score = None
    /\ ret.value[1].completed >= 1

(***************************************************************************)
(* C13: add_item with an AcademicItem appends it at the end of the list,   *)
(* keeps the earlier items in their order and allows duplicates; add_item  *)
(* with anything else raises TypeError and leaves the list unchanged.      *)
(***************************************************************************)
C13_AddItemAppends ==
    [][ret'.op = "add_item" =>
        IF IsAcademicItem(ret'.arg)
        THEN ret'.raised = "none" /\ items' = Append(items, ret'.arg)
        ELSE ret'.raised = "TypeError" /\ items' = items]_vars

\* the same item has been added twice
C13_Witness ==
    /\ ret.op = "add_item" /\ ret.raised = "none"
    /\ Len(items) = 2
    /\ items[1] = items[2]

(***************************************************************************)
(* C14: for a non-completed item get_priority() is the table of the spec   *)
(* in days = due - today and weight.  Assignment: critical if days < 0 or  *)
(* (days <= 2 and weight >= 20), else high if days <= 5 or weight >= 30,   *)
(* else medium if days <= 10 or weight >= 15, else low.  Project: critical *)
(* if days <= 5, else high if days <= 10 or weight >= 30, else medium if   *)
(* days <= 20, else low.  Exam: critical if days <= 7, else high if        *)
(* days <= 14, else medium.                                                *)
(***************************************************************************)
PriorityTable(kind, days, weight) ==
    IF kind = "Assignment"
    THEN IF days < 0 \/ (days <= 2 /\ weight >= 20) THEN "critical"
         ELSE IF days <= 5 \/ weight >= 30 THEN "high"
         ELSE IF days <= 10 \/ weight >= 15 THEN "medium"
         ELSE "low"
    ELSE IF kind = "Project"
    THEN IF days <= 5 THEN "critical"
         ELSE IF days <= 10 \/ weight >= 30 THEN "high"
         ELSE IF days <= 20 THEN "medium"
         ELSE "low"
    ELSE IF days <= 7 THEN "critical"
         ELSE IF days <= 14 THEN "high"
         ELSE "medium"

\* the number of days from today to the day whose date the item carries
DaysToDue(it) == CHOOSE d \in PriorityDays : StrftimeOf(today + d) = it.due_date

C14_PriorityTable ==
    (ret.op = "get_priority" /\ item[1].status # "completed") =>
        ret.value[1] = PriorityTable(item[1].kind, DaysToDue(item[1]), item[1].weight)

\* an assignment due in two days with weight 20, in progress: critical by
\* the weight
C14_Witness ==
    /\ ret.op = "get_priority"
    /\ item[1].kind = "Assignment"
    /\ item[1].status = "in_progress"
    /\ DaysToDue(item[1]) = 2
    /\ item[1].weight = 20
    /\ ret.value[1] = "critical"

(***************************************************************************)
(* C15: mark_completed(score) with 0 <= score <= 100 sets the status to    *)
(* 'completed' and records the score, whatever the status was before; with *)
(* a score outside [0, 100] it raises an error and leaves status and score *)
(* as they were.                                                           *)
(***************************************************************************)
C15_MarkCompleted ==
    [][(ret'.op = "mark_completed" /\ item # None) =>
        IF 0 <= ret'.arg.score /\ ret'.arg.score <= 100
        THEN ret'.arg.submission_date = None =>
                /\ ret'.raised = "none"
                /\ item'[1].status = "completed"
                /\ item'[1].score = Some(ret'.arg.score)
        ELSE /\ ret'.raised = "ValueError"
             /\ item'[1].status = item[1].status
             /\ item'[1].score = item[1].score]_vars

\* an item that already had a score has been completed again with score 0
C15_Witness ==
    /\ ret.op = "mark_completed" /\ ret.raised = "none"
    /\ ret.arg.score = 0
    /\ ret.arg.submission_date = None
    /\ item[1].status = "completed"
    /\ item[1].score = Some(0)

\* a score of 101 was refused on an item in progress
C15_WitnessRefused ==
    /\ ret.op = "mark_completed" /\ ret.raised = "ValueError"
    /\ ret.arg.score = 101
    /\ item[1].status = "in_progress"
    /\ item[1].score = None

(***************************************************************************)
(* C16: constructing an Assignment, Project or Exam with an invalid date   *)
(* format, a weight outside [0, 100], an empty or blank title or course    *)
(* code, or an invalid status or exam_type raises a validation error and   *)
(* yields no item.                                                         *)
(***************************************************************************)
\* the string is a calendar date written YYYY-MM-DD
IsYyyyMmDd(s) ==
    /\ Len(s) = 10
    /\ s[5] = "-" /\ s[8] = "-"
    /\ \A k \in {1, 2, 3, 4, 6, 7, 9, 10} : IsDigit(s[k])
    /\ Num(SubSeq(s, 6, 7)) \in 1..12
    /\ Num(SubSeq(s, 1, 4)) >= 1
    /\ Num(SubSeq(s, 9, 10)) \in 1..DaysInMonth(Num(SubSeq(s, 1, 4)), Num(SubSeq(s, 6, 7)))

IsBlank(s) == \A k \in 1..Len(s) : s[k] = " "

\* one of the arguments of the call is invalid in the sense of the claim
InvalidArguments(op, x) ==
    \/ ~IsYyyyMmDd(x[1].due_date)
    \/ x[1].weight < 0 \/ x[1].weight > 100
    \/ IsBlank(x[1].title)
    \/ IsBlank(x[1].course_code)
    \/ x[1].status \notin {"not_started", "in_progress", "completed"}
    \/ (op = "Exam" /\ Lower(x[2]) \notin {s_midterm, s_final, s_quiz, s_exam})

C16_InvalidRejected ==
    (ret.op \in {"Assignment", "Project", "Exam"} /\ InvalidArguments(ret.op, ret.arg)) =>
        ret.raised = "ValueError" /\ ret.value = None

(***************************************************************************)
(* CSV import and export                                                   *)
(***************************************************************************)
\* the cell of a row under a column; the empty str when the header has no
\* such column or the row ends before it
FieldOf(header, cells, key) ==
    IF \E i \in 1..Len(header) : header[i] = key /\ i <= Len(cells)
    THEN cells[ColumnIndex(header, key)] ELSE <<>>

TypeKind(t) ==
    CASE t = s_Assignment -> "Assignment"
      [] t = s_Project -> "Project"
      [] t = s_Exam -> "Exam"
      [] OTHER -> "none"

IsNumberIn(s, lo, hi) ==
    /\ PyFloat(Some(s)).raised = "none"
    /\ lo <= PyFloat(Some(s)).obj
    /\ PyFloat(Some(s)).obj <= hi

IsCountFrom(s, lo) == PyInt(Some(s)).raised = "none" /\ lo <= PyInt(Some(s)).obj

\* type, title, due_date, course_code and weight are all valid
RequiredValid(header, cells) ==
    /\ TypeKind(FieldOf(header, cells, "type")) # "none"
    /\ Strip(FieldOf(header, cells, "title")) # <<>>
    /\ FieldOf(header, cells, "due_date") # <<>>
    /\ ParsesAsDate(FieldOf(header, cells, "due_date"))
    /\ Strip(FieldOf(header, cells, "course_code")) # <<>>
    /\ IsNumberIn(FieldOf(header, cells, "weight"), 0, 100000)

\* every optional column is absent or empty
OptionalsAbsentOrEmpty(header, cells) ==
    \A i \in 1..Len(OptionalHeader) : FieldOf(header, cells, OptionalHeader[i]) = <<>>

\* the items an import has produced
Imported ==
    IF ret.op = "import_from_csv" THEN loaded.items
    ELSE IF ret.value = None THEN <<>> ELSE ret.value[1]

ImportDone == ret.op \in {"import_from_csv", "import_items_from_csv"} /\ csv_file # None

\* C17: a file whose rows all have valid required fields and absent or
\* empty optional columns is imported row by row, by import_from_csv and
\* by import_items_from_csv: no error, one item per row, each of the type
\* its row names, for Assignment, Project and Exam alike.
C17_DefaultsImported ==
    (/\ ImportDone
     /\ \A k \in 1..Len(csv_file[1].rows) :
            /\ RequiredValid(csv_file[1].header, csv_file[1].rows[k])
            /\ OptionalsAbsentOrEmpty(csv_file[1].header, csv_file[1].rows[k]))
    => /\ ret.raised = "none"
       /\ Len(Imported) = Len(csv_file[1].rows)
       /\ \A k \in 1..Len(csv_file[1].rows) :
            Imported[k].kind = TypeKind(FieldOf(csv_file[1].header, csv_file[1].rows[k], "type"))

\* the optional cells that the type of the row reads are given and valid
OptionalsValid(header, cells) ==
    CASE FieldOf(header, cells, "type") = s_Assignment ->
            IsNumberIn(FieldOf(header, cells, "estimated_hours"), 0, 1000000)
      [] FieldOf(header, cells, "type") = s_Project ->
            /\ IsCountFrom(FieldOf(header, cells, "num_milestones"), 1)
            /\ IsCountFrom(FieldOf(header, cells, "team_size"), 1)
      [] FieldOf(header, cells, "type") = s_Exam ->
            /\ Lower(FieldOf(header, cells, "exam_type")) \in VALID_EXAM_TYPES
            /\ IsCountFrom(FieldOf(header, cells, "num_chapters"), 1)
      [] OTHER -> FALSE

\* a row that is valid in every column it uses
FullRow(header, cells) == RequiredValid(header, cells) /\ OptionalsValid(header, cells)

\* a required field is missing: the column is absent, the cell is empty,
\* or the row ends before it
MissingRequired(header, cells) ==
    \E i \in 1..Len(RequiredHeader) : Strip(FieldOf(header, cells, RequiredHeader[i])) = <<>>

\* the weight, or a count the type of the row reads, is no number
UnparseableNumber(header, cells) ==
    \/ PyFloat(Some(FieldOf(header, cells, "weight"))).raised # "none"
    \/ /\ FieldOf(header, cells, "type") = s_Project
       /\ FieldOf(header, cells, "num_milestones") # <<>>
       /\ PyInt(Some(FieldOf(header, cells, "num_milestones"))).raised # "none"

InvalidRow(header, cells) == MissingRequired(header, cells) \/ UnparseableNumber(header, cells)

FullRows(file) == {k \in 1..Len(file.rows) : FullRow(file.header, file.rows[k])}

\* C18: in a file where each row is either valid in every column or is
\* missing a required field or holds an unparseable number, the invalid
\* rows are skipped without an error, and the count returned (the length
\* of the list returned) is the number of valid rows.
C18_InvalidSkipped ==
    (/\ ImportDone
     /\ \A k \in 1..Len(csv_file[1].rows) :
            \/ FullRow(csv_file[1].header, csv_file[1].rows[k])
            \/ InvalidRow(csv_file[1].header, csv_file[1].rows[k]))
    => /\ ret.raised = "none"
       /\ Len(Imported) = Cardinality(FullRows(csv_file[1]))
       /\ ret.op = "import_from_csv" => ret.value = Some(Cardinality(FullRows(csv_file[1])))

\* C19: after export_to_csv of a planner with n items, import_from_csv of
\* the file into an empty planner returns n and leaves n items in it.
C19_CsvRoundTrip ==
    (ret.op = "import_from_csv" /\ csv_file = export_to_csv(items, today))
    => /\ ret.raised = "none"
       /\ ret.value = Some(Len(items))
       /\ Len(loaded.items) = Len(items)

(***************************************************************************)
(* JSON bulk load                                                          *)
(***************************************************************************)
\* the items of the good records of a file, in file order
RECURSIVE GoodItems(_)
GoodItems(recs) ==
    IF recs = <<>> THEN <<>>
    ELSE (IF Head(recs) \in GoodRecords
          THEN <<CHOOSE x \in Catalog : _serialize_item(x) = Head(recs)>>
          ELSE <<>>) \o GoodItems(Tail(recs))

\* C20: after load_from_json or load_planner_from_json of a well-formed
\* file with good and bad item records, no error has been raised and the
\* planner holds the items of the good records, in file order.
C20_BadRecordsSkipped ==
    (ret.op \in {"load_from_json", "load_planner_from_json"} /\ json_file # None)
    => /\ ret.raised = "none"
       /\ loaded.items = GoodItems(json_file[1].root.items)

(***************************************************************************)
(* JSON load: errors                                                       *)
(***************************************************************************)
\* C21: a JSON load by load_from_json or load_planner_from_json succeeds
\* or fails with the error of a missing file, of invalid JSON, or an I/O
\* error; no other exception reaches the caller.
C21_LoadErrorKinds ==
    ret.op \in {"load_from_json", "load_planner_from_json"}
    => ret.raised \in {"none", "FileNotFoundError", "ValueError", "OSError"}

\* C26: a call of load_from_json that raises leaves the planner it was
\* called on as it was: the same student_name and the same items.
C26_FailedLoadKeepsPlanner ==
    [][(ret'.op = "load_from_json" /\ ret'.raised # "none")
       => (loaded'.student_name = loaded.student_name /\ loaded'.items = loaded.items)]_vars

\* C27: the student_name of a planner is a non-empty string in every
\* state, after construction and after every load.
C27_StudentNameNonEmpty == Strip(loaded.student_name) # <<>>

(***************************************************************************)
(* Single records: the type tag                                            *)
(***************************************************************************)
\* the tag of one of the three variants: a class name in any case, or a
\* tag that get_item_type gives
IsVariantTag(t) ==
    \/ Upper(t) \in {s_ASSIGNMENT, s_PROJECT, s_EXAM}
    \/ \E e \in VALID_EXAM_TYPES : Upper(t) = s_EXAM_dash \o Upper(e)

\* C22: a record whose type tag is not the tag of Assignment, Project or
\* Exam makes _item_from_dict and _deserialize_item fail with a format error
\* (ValueError, or KeyError for a missing key), and no item is produced.
C22_UnknownTagFails ==
    (/\ ret.op \in {"_item_from_dict", "_deserialize_item"}
     /\ ~IsVariantTag(DictGet(ret.arg, "type", <<>>)))
    => ret.raised \in {"ValueError", "KeyError"}

(***************************************************************************)
(* JSON round trip, item by item                                           *)
(***************************************************************************)
\* C23: after save_to_json of a planner and load_from_json of the file,
\* the item at each position has the variant, the status and the score of
\* the item at that position in the planner that was saved.
C23_RoundTripKeepsItems ==
    (ret.op = "load_from_json" /\ json_file # None) =>
        /\ Len(loaded.items) = Len(items)
        /\ \A k \in 1..Len(items) :
            /\ loaded.items[k].kind = items[k].kind
            /\ loaded.items[k].status = items[k].status
            /\ loaded.items[k].score = items[k].score

(***************************************************************************)
(* Weekly workload                                                         *)
(***************************************************************************)
\* the days from today to the due date of the item at position i
DueIn(i) == DateOf(items[i].due_date) - today

\* C24: calculate_weekly_workload(weeks_ahead) returns exactly the keys
\* 'Week 1' .. 'Week weeks_ahead'; the value of 'Week k' is the sum,
\* rounded to two decimals, of the time commitments of the items due d
\* days from today with d >= 0 and floor(d / 7) + 1 = k, so that an item
\* with 0 <= d < 7 * weeks_ahead counts in one week and any other in none.
C24_WeeklyBuckets ==
    (ret.op = "calculate_weekly_workload" /\ ret.raised = "none") =>
        /\ DOMAIN ret.value[1] = 1..ret.arg
        /\ \A k \in 1..ret.arg :
            ret.value[1][k] =
                Round2(SumCommitment({i \in 1..Len(items) :
                                        DueIn(i) >= 0 /\ (DueIn(i) \div 7) + 1 = k}))

\* two weeks are asked for of a planner holding an item that is past due
\* and an item due in the second week
C24_Witness ==
    /\ ret.op = "calculate_weekly_workload" /\ ret.raised = "none"
    /\ ret.arg = 2
    /\ ret.value[1][2] > 0
    /\ \E i, j \in 1..Len(items) : DueIn(i) < 0 /\ DueIn(j) \in 7..13

(***************************************************************************)
(* mark_completed: what a refused call leaves behind                       *)
(***************************************************************************)
\* C25: a call of mark_completed that raises, for a score out of range or
\* for a submission date that is no date, leaves the status, the score and
\* the submission date of the item as they were.
C25_RefusedKeepsItem ==
    [][(ret'.op = "mark_completed" /\ ret'.raised # "none")
       => /\ item'[1].status = item[1].status
          /\ item'[1].score = item[1].score
          /\ item'[1].submission_date = item[1].submission_date]_vars

(***************************************************************************)
(* The two priority views                                                  *)
(***************************************************************************)
\* C28: for every priority p, get_items_by_priority(p) returns as many
\* items as get_priority_summary() counts under p.
C28_PriorityViewsAgree ==
    (ret.op = "get_items_by_priority" /\ ret.raised = "none") =>
        Len(ret.value[1]) = get_priority_summary(items, today)[ret.arg]

(***************************************************************************)
(* The two JSON implementations                                            *)
(***************************************************************************)
\* C29: a file written by save_to_json or by save_planner_to_json and read
\* by load_from_json or by load_planner_from_json gives a planner with as
\* many items as the planner saved, of the same variants in the same order.
C29_JsonInterchangeable ==
    (/\ ret.op \in {"load_from_json", "load_planner_from_json"}
     /\ json_file # None
     /\ json_file = save_to_json(student_name, items, today).obj)
    => /\ ret.raised = "none"
       /\ Len(loaded.items) = Len(items)
       /\ \A k \in 1..Len(items) : loaded.items[k].kind = items[k].kind

(***************************************************************************)
(* Priority as the days pass                                               *)
(***************************************************************************)
\* low < medium < high < critical
Urgency(p) ==
    CASE p = "low" -> 0
      [] p = "medium" -> 1
      [] p = "high" -> 2
      [] p = "critical" -> 3
      [] OTHER -> 0 - 1

\* C30: when a day passes over an item that is not completed and does not
\* change, get_priority() is one of the four levels and its urgency is not
\* lower than the day before, for each of the three classes; and an item
\* that is not completed and past its due date has priority 'critical'.
C30_UrgencyNeverDrops ==
    [][(today' > today /\ item # None /\ item' = item
        /\ item[1].status # "completed")
       => /\ Urgency(get_priority(item[1], today)) >= 0
          /\ Urgency(get_priority(item'[1], today'))
                >= Urgency(get_priority(item[1], today))
          /\ (days_until_due(item'[1], today') < 0
                => get_priority(item'[1], today') = "critical")]_vars

\* a day has passed and an assignment that is not completed went from due
\* today with priority 'high' to overdue with priority 'critical'
C30_Witness ==
    /\ ret.op = "tick"
    /\ item # None
    /\ item[1].kind = "Assignment"
    /\ item[1].status # "completed"
    /\ days_until_due(item[1], today) = 0 - 1
    /\ get_priority(item[1], today - 1) = "high"
    /\ get_priority(item[1], today) = "critical"

====
